---- MODULE Spec2Model ----
(***************************************************************************)
(* A model of pseudo_planck (src/blackbody_explained.py), the one piece of *)
(* numeric logic of the repository, and of its callers' view of it; and of *)
(* the scenes that read the module tables (src/anne.py, src/problems.py,   *)
(* src/blackbody_explained.py), each run by the renderer step by step.     *)
(*                                                                         *)
(* Numbers.  The code computes in IEEE-754 binary64.  The model computes   *)
(* in the same kind of arithmetic at a smaller precision: a number is      *)
(* m * 2^e with a signed mantissa of MantBits bits, every operation rounds *)
(* its exact result to nearest, ties to even, and a result of magnitude    *)
(* 2^1024 or more is an overflow, as in binary64.  Gradual underflow is    *)
(* not modelled (the exponent is unbounded below): the inputs the model    *)
(* draws keep every intermediate result in binary64's normal range.        *)
(***************************************************************************)
EXTENDS Integers, Sequences, FiniteSets, TLC

VARIABLES
    wavelength_nm_input,  \* the caller's first argument (a scalar or an array object)
    T_kelvin,             \* the caller's second argument
    result,               \* what the last call returned or raised; NoResult before it
    pc,                   \* "ready": arguments chosen, "done": the call has ended
    earlier,              \* an earlier call the caller remembers, or NoCall
    B_Wien,               \* module constant, line 22
    EPSILON,              \* module constant, line 23
    TEMP_COLORS,          \* module table, lines 9-20
    TEMP_COLORS_CUBE,     \* module table, src/anne.py lines 5-12
    BULB_GLOW_COLORS,     \* module table, src/problems.py lines 10-15
    WIEN_CONSTANT,        \* module constant, src/problems.py line 5
    scene,                \* the scene the renderer is running, or "none"
    at,                   \* the position of the running construct
    frame,                \* the local variables of the running construct
    played,               \* the animation commands the running construct has emitted
    first                 \* for each scene, the commands of its first complete run

vars == <<wavelength_nm_input, T_kelvin, result, pc, earlier, B_Wien, EPSILON, TEMP_COLORS,
          TEMP_COLORS_CUBE, BULB_GLOW_COLORS, WIEN_CONSTANT, scene, at, frame, played, first>>

\* what a call of pseudo_planck by itself leaves alone
sceneVars == <<TEMP_COLORS_CUBE, BULB_GLOW_COLORS, WIEN_CONSTANT, scene, at, frame, played, first>>

-----------------------------------------------------------------------------
(* Floating-point numbers: [m |-> mantissa, e |-> exponent], value m * 2^e. *)
(* Zero is m = 0, e = 0; otherwise MantLo <= |m| < MantHi.                  *)

MantBits == 15
MantLo == 2^(MantBits - 1)
MantHi == 2^MantBits
\* binary64: a finite value is below 2^1024
MaxExp == 1024

Num == [m : Int, e : Int]

Abs(n) == IF n < 0 THEN -n ELSE n
Sign(n) == IF n < 0 THEN -1 ELSE 1

\* the number of bits of a positive integer below 2^31
BitLen(a) == CHOOSE k \in 1..31 : a \div 2^(k - 1) = 1

Zero == [m |-> 0, e |-> 0]

\* M * 2^E rounded to MantBits bits, to nearest, ties to even
Round[M \in Int, E \in Int] ==
    IF M = 0 THEN Zero
    ELSE LET a == Abs(M)
             k == BitLen(a)
         IN IF k <= MantBits
            THEN [m |-> Sign(M) * a * 2^(MantBits - k), e |-> E - (MantBits - k)]
            ELSE LET sh == k - MantBits
                     q == a \div 2^sh
                     r == a % 2^sh
                     half == 2^(sh - 1)
                     up == r > half \/ (r = half /\ q % 2 = 1)
                     q1 == IF up THEN q + 1 ELSE q
                 IN IF q1 = MantHi
                    THEN [m |-> Sign(M) * MantLo, e |-> E + sh + 1]
                    ELSE [m |-> Sign(M) * q1, e |-> E + sh]

FromInt(n) == Round[n, 0]

Neg[x \in Num] == [x EXCEPT !.m = -x.m]

Mul[x \in Num, y \in Num] == Round[x.m * y.m, x.e + y.e]

\* x / y for y # 0: the quotient with a guard bit and a sticky bit, rounded
Div[x \in Num, y \in Num] ==
    IF x.m = 0 THEN Zero
    ELSE LET a == Abs(x.m) * MantHi
             b == Abs(y.m)
             q == a \div b
             r == a % b
             guard == IF 2 * r >= b THEN 1 ELSE 0
             r2 == 2 * r - guard * b
             sticky == IF r2 # 0 THEN 1 ELSE 0
             G == 2 * (2 * q + guard) + sticky
         IN Round[Sign(x.m) * Sign(y.m) * G, x.e - y.e - MantBits - 2]

\* x + y: exact when the exponents are at most MantBits + 1 apart, else the
\* smaller operand is below a quarter of the larger one's last place
Add[x \in Num, y \in Num] ==
    IF x.m = 0 THEN y
    ELSE IF y.m = 0 THEN x
    ELSE LET hi == IF x.e >= y.e THEN x ELSE y
             lo == IF x.e >= y.e THEN y ELSE x
             d == hi.e - lo.e
         IN IF d > MantBits + 1 THEN hi
            ELSE Round[hi.m * 2^d + lo.m, lo.e]

Sub[x \in Num, y \in Num] == Add[x, Neg[y]]

Lt(x, y) == Sub[x, y].m < 0
Le(x, y) == Sub[x, y].m <= 0
Gt(x, y) == Sub[y, x].m < 0
Ge(x, y) == Sub[y, x].m <= 0

\* a result the binary64 format cannot hold
Overflows(x) == x.m # 0 /\ x.e + MantBits - 1 >= MaxExp

One == FromInt(1)
Two == FromInt(2)
Half == Div[One, Two]
Eighth == Div[One, FromInt(8)]

-----------------------------------------------------------------------------
(* np.exp.  exp(x) = 2^(x * log2 e); the power of two is split into its     *)
(* whole part, which moves the exponent, and its fraction, looked up in a   *)
(* 64-step table of 2^(-i/64) (scaled by 2^15) with linear interpolation.   *)
(* The result is non-increasing in the size of a negative argument, as      *)
(* np.exp is, and underflows to zero below 2^-1075, as binary64 does.       *)

LOG2E == [m |-> 23637, e |-> -14]   \* 1.442695...

ExpTab ==
    <<32768, 32415, 32066, 31720, 31379, 31041, 30706, 30376, 30048, 29725,
      29405, 29088, 28774, 28464, 28158, 27855, 27554, 27258, 26964, 26674,
      26386, 26102, 25821, 25543, 25268, 24995, 24726, 24460, 24196, 23936,
      23678, 23423, 23170, 22921, 22674, 22430, 22188, 21949, 21713, 21479,
      21247, 21019, 20792, 20568, 20347, 20127, 19911, 19696, 19484, 19274,
      19066, 18861, 18658, 18457, 18258, 18061, 17867, 17674, 17484, 17296,
      17109, 16925, 16743, 16562, 16384>>

\* 2^(-y) for y >= 0
Exp2Neg[y \in Num] ==
    IF y.m = 0 \/ y.e <= -31 THEN One
    ELSE IF y.e >= -3 THEN Zero
    ELSE LET s == -y.e
             n == y.m \div 2^s
             fr == y.m % 2^s
             f15 == IF s >= 15 THEN fr \div 2^(s - 15) ELSE fr * 2^(15 - s)
             i == f15 \div 512
             r == f15 % 512
             v == ExpTab[i + 1] - ((ExpTab[i + 1] - ExpTab[i + 2]) * r) \div 512
         IN IF n > 1075 THEN Zero ELSE Round[v, -15 - n]

\* np.exp(x); the code only ever passes x <= 0
Exp[x \in Num] ==
    IF x.m <= 0 THEN Exp2Neg[Mul[Neg[x], LOG2E]]
    ELSE Div[One, Exp2Neg[Mul[x, LOG2E]]]

-----------------------------------------------------------------------------
(* Literals of the code, each rounded to the model's precision as Python    *)
(* rounds a literal to binary64.                                            *)

Lit_1e9 == [m |-> 30518, e |-> 15]      \* 1e9, lines 37-39
Lit_0_3 == [m |-> 19661, e |-> -16]     \* 0.3, line 41
Lit_0_6 == [m |-> 19661, e |-> -15]     \* 0.6, line 42
Lit_1000 == FromInt(1000)               \* 1000, line 63
B_Wien_Value == [m |-> 24310, e |-> -23]  \* 2.898e-3, line 22
EPSILON_Value == [m |-> 17592, e |-> -44] \* 1e-9, line 23

\* lines 9-20: (threshold in kelvin, colour)
TEMP_COLORS_Value ==
    << <<300, "DARK_GRAY">>, <<800, "rgb(0.6,0,0)">>, <<1000, "RED_E">>,
       <<1200, "RED_D">>, <<1500, "ORANGE">>, <<2000, "YELLOW_E">>,
       <<2500, "YELLOW_D">>, <<3000, "WHITE">>, <<4000, "BLUE_C">>,
       <<5800, "WHITE">> >>

\* src/anne.py lines 5-12: (index, colour)
TEMP_COLORS_CUBE_Value ==
    << <<0, "RED_E">>, <<1, "RED_D">>, <<2, "ORANGE">>, <<3, "YELLOW_E">>,
       <<4, "YELLOW_D">>, <<5, "WHITE">> >>

\* interpolate_color(c1, c2, alpha) of the animation library: the colour is
\* kept as the two colours and the weight it was asked for
interpolate_color(c1, c2, alpha) == [from |-> c1, to |-> c2, alpha |-> alpha]

\* src/problems.py lines 10-15: (temperature, colour)
BULB_GLOW_COLORS_Value ==
    << <<0, "BLACK">>, <<1000, "RED_E">>, <<2000, "RED_D">>, <<3000, "ORANGE">>,
       <<4000, "YELLOW_E">>, <<4800, "YELLOW_D">>,
       <<5000, interpolate_color("YELLOW_D", "GREEN_D", Div[One, Two])>>,
       <<5100, interpolate_color("YELLOW_D", "GREEN_D", Div[FromInt(7), FromInt(10)])>>,
       <<5270, "GREEN_C">> >>

WIEN_CONSTANT_Value == [m |-> 24310, e |-> -23]  \* 2.898e-3, src/problems.py line 5

-----------------------------------------------------------------------------
(* Python and numpy objects.  An argument or a result is                    *)
(*   [type, ndim, data]: type "float" (a Python number; np.isscalar is      *)
(*   true), "float64" (a numpy scalar) or "ndarray"; ndim 0 or 1; data the  *)
(*   sequence of its elements (one element when ndim = 0).                  *)

PyFloat(x) == [type |-> "float", ndim |-> 0, data |-> <<x>>]
NpFloat64(x) == [type |-> "float64", ndim |-> 0, data |-> <<x>>]
NdArray(nd, xs) == [type |-> "ndarray", ndim |-> nd, data |-> xs]
OverflowError == [type |-> "OverflowError", ndim |-> 0, data |-> <<>>]
NoResult == [type |-> "none", ndim |-> 0, data |-> <<>>]
NoCall == [T |-> Zero, wavelength |-> NoResult, returned |-> NoResult,
           between |-> FALSE]

\* np.isscalar, line 28
isscalar(obj) == obj.type \in {"float", "float64"}

\* np.asarray, line 31: an ndarray is passed through, a scalar becomes 0-d
asarray(obj) == IF obj.type = "ndarray" THEN obj ELSE NdArray(0, obj.data)

\* a float copy of the array in place of zeros
zeros_like_Copy(a) == NdArray(a.ndim, a.data)

\* np.zeros_like(a, dtype=float), lines 35 and 45
zeros_like(a) == NdArray(a.ndim, [i \in 1..Len(a.data) |-> Zero])

\* x ** 2 on numpy values, lines 52-58, and on a Python float
Square[x \in Num] == Mul[x, x]

\* x ** 4 on a Python float, line 63; float.__pow__ raises OverflowError
\* when the result is out of range, reported here by Overflows
Pow4[x \in Num] == Mul[Square[x], Square[x]]

-----------------------------------------------------------------------------
(* pseudo_planck, lines 26-67.                                              *)

\* the peak converted with 1e6 (micrometres) in place of 1e9
peak_nm_Micro(T, bw, eps) == Mul[Div[bw, Add[T, eps]], FromInt(1000000)]

\* lines 38-39: lambda_max_m = B_Wien / (T_kelvin + EPSILON); peak_nm = lambda_max_m * 1e9
peak_nm(T, bw, eps) == Mul[Div[bw, Add[T, eps]], Lit_1e9]

\* line 41
left_width(peak, eps) == Add[Mul[peak, Lit_0_3], eps]

\* the right side narrower than the left: 0.15 in place of 0.6
right_width_Narrow(peak, eps) == Add[Mul[Mul[peak, Lit_0_3], Half], eps]

\* line 42
right_width(peak, eps) == Add[Mul[peak, Lit_0_6], eps]

\* the exponent without the square of the distance
Gaussian_Unsquared(w, peak, width) ==
    Exp[Div[Neg[Sub[w, peak]], Mul[Two, Square[width]]]]

\* the exponent alone, np.exp left out
Gaussian_NoExp(w, peak, width) ==
    Div[Neg[Square[Sub[w, peak]]], Mul[Two, Square[width]]]

\* np.exp(-((w - peak_nm)**2) / (2 * width**2)), the expression of lines 52, 53, 56, 58
Gaussian(w, peak, width) ==
    Exp[Div[Neg[Square[Sub[w, peak]]], Mul[Two, Square[width]]]]

\* the second masked assignment with left_width in place of right_width
IntensityArray_LeftWidthTwice(wavelength_nm, peak, lw, rw) ==
    LET w == wavelength_nm.data
    IN NdArray(wavelength_nm.ndim, [i \in DOMAIN w |-> Gaussian(w[i], peak, lw)])

\* lines 45-53, wavelength_nm.ndim > 0: a zero array, then the two masked assignments
IntensityArray(wavelength_nm, peak, lw, rw) ==
    LET w == wavelength_nm.data
        zeros == zeros_like(wavelength_nm).data
        left_side_condition == [i \in DOMAIN w |-> Le(w[i], peak)]
        right_side_condition == [i \in DOMAIN w |-> Gt(w[i], peak)]
        after_left == [i \in DOMAIN w |->
                        IF left_side_condition[i] THEN Gaussian(w[i], peak, lw)
                        ELSE zeros[i]]
        after_right == [i \in DOMAIN w |->
                         IF right_side_condition[i] THEN Gaussian(w[i], peak, rw)
                         ELSE after_left[i]]
    IN NdArray(wavelength_nm.ndim, after_right)

\* the left condition with < in place of <=
IntensityScalar_Strict(wavelength_nm, peak, lw, rw) ==
    LET w == wavelength_nm.data[1]
    IN IF Lt(w, peak) THEN NpFloat64(Gaussian(w, peak, lw))
       ELSE IF Gt(w, peak) THEN NpFloat64(Gaussian(w, peak, rw))
       ELSE zeros_like(wavelength_nm)

\* lines 45-49 and 54-58, a 0-d wavelength_nm: if / elif on the two conditions;
\* intensity is rebound to the numpy scalar np.exp returns
IntensityScalar(wavelength_nm, peak, lw, rw) ==
    LET w == wavelength_nm.data[1]
    IN IF Le(w, peak) THEN NpFloat64(Gaussian(w, peak, lw))
       ELSE IF Gt(w, peak) THEN NpFloat64(Gaussian(w, peak, rw))
       ELSE zeros_like(wavelength_nm)

\* the third power in place of the fourth
Scale_Cubed(T) == Mul[Square[Div[T, Lit_1000]], Div[T, Lit_1000]]

\* line 63: (T_kelvin / 1000)**4
Scale(T) == Pow4[Div[T, Lit_1000]]

\* lines 26-67: the returned object, or OverflowError when line 63 raises
pseudo_planck(wavelength_nm_input_, T, bw, eps) ==
    LET is_scalar_input == isscalar(wavelength_nm_input_)
        wavelength_nm == asarray(wavelength_nm_input_)
    IN IF T.m <= 0
       THEN IF is_scalar_input THEN PyFloat(Zero) ELSE zeros_like(wavelength_nm)
       ELSE LET peak == peak_nm(T, bw, eps)
                lw == left_width(peak, eps)
                rw == right_width(peak, eps)
                intensity == IF wavelength_nm.ndim > 0
                             THEN IntensityArray(wavelength_nm, peak, lw, rw)
                             ELSE IntensityScalar(wavelength_nm, peak, lw, rw)
                scale == Scale(T)
                scaled == [intensity EXCEPT
                             !.data = [i \in DOMAIN intensity.data |->
                                         Mul[intensity.data[i], scale]]]
            IN IF Overflows(scale) THEN OverflowError
               ELSE IF is_scalar_input THEN PyFloat(scaled.data[1])
               ELSE scaled

-----------------------------------------------------------------------------
(* The callers' arguments.                                                  *)

\* the longest 1-d wavelength array a caller passes
MaxLen == 2

\* lines 220-221, the caller's own lambda_max_nm for T_plot
lambda_max_nm(T, bw, eps) == Mul[Div[bw, Add[T, eps]], Lit_1e9]

T_tiny == EPSILON_Value                \* 1e-9 K: as small as EPSILON
T_huge == [m |-> 27636, e |-> 251]     \* 1e80 K: (T/1000)**4 is still finite
T_over == [m |-> 17272, e |-> 255]     \* 1e81 K: (T/1000)**4 exceeds binary64

\* temperatures the scenes pass (lines 200 and 459), the spec's 5800 K, 1 K, the
\* two sides of the T <= 0 guard, and the ends of the range of T > 0
Temps ==
    {FromInt(-100), Zero, T_tiny, T_huge, T_over}
    \cup {FromInt(t) : t \in {1, 300, 1000, 1500, 2500, 3000, 4000, 5000, 5800}}

\* wavelengths in nm: zero, the ends of the plotted range (line 214) and
\* the spectral lines (lines 446-451)
FixedWavelengths == {FromInt(w) : w \in {0, 200, 410, 660, 1500}}

\* the peak the caller computes for T, and wavelengths at a distance d below
\* and above it, d an eighth and a half of the peak
PeakWavelengths(T) ==
    LET lm == lambda_max_nm(T, B_Wien_Value, EPSILON_Value)
    IN {lm} \cup {Sub[lm, Mul[lm, c]] : c \in {Eighth, Half}}
            \cup {Add[lm, Mul[lm, c]] : c \in {Eighth, Half}}

Wavelengths(T) ==
    FixedWavelengths \cup (IF T.m > 0 THEN PeakWavelengths(T) ELSE {})

SeqsUpTo(S, n) == UNION {[1..k -> S] : k \in 0..n}

\* a Python scalar, a 0-d array, or a 1-d array of up to MaxLen wavelengths
Arguments(T) ==
    {PyFloat(w) : w \in Wavelengths(T)}
    \cup {NdArray(0, <<w>>) : w \in Wavelengths(T)}
    \cup {NdArray(1, ws) : ws \in SeqsUpTo(Wavelengths(T), MaxLen)}

-----------------------------------------------------------------------------
(* The state machine: a caller chooses arguments, calls, and calls again.   *)

\* the scenes whose construct reads a module table or constant
Scenes ==
    {"Anim1_BlackCubeAbsorption", "Anim5_LightInteraction", "BlackbodyRadiationExplained",
     "IncandescentBulbDiffraction", "PracticeProblemScene"}

\* no construct is running: no local variables
NoFrame == [scene |-> "none"]

\* no scene has run yet
NoRuns == [s \in Scenes |-> <<>>]

Init ==
    /\ T_kelvin \in Temps
    /\ wavelength_nm_input \in Arguments(T_kelvin)
    /\ result = NoResult
    /\ pc = "ready"
    /\ earlier = NoCall
    /\ B_Wien = B_Wien_Value
    /\ EPSILON = EPSILON_Value
    /\ TEMP_COLORS = TEMP_COLORS_Value
    /\ TEMP_COLORS_CUBE = TEMP_COLORS_CUBE_Value
    /\ BULB_GLOW_COLORS = BULB_GLOW_COLORS_Value
    /\ WIEN_CONSTANT = WIEN_CONSTANT_Value
    /\ scene = "none"
    /\ at = "none"
    /\ frame = NoFrame
    /\ played = <<>>
    /\ first = NoRuns

\* line 37 as an in-place conversion, wavelength_nm *= 1e-9, on the array
\* np.asarray shares with the caller
Call_InPlace ==
    /\ pc = "ready"
    /\ result' = pseudo_planck(wavelength_nm_input, T_kelvin, B_Wien, EPSILON)
    /\ pc' = "done"
    /\ wavelength_nm_input' =
          IF wavelength_nm_input.type = "ndarray"
          THEN [wavelength_nm_input EXCEPT
                  !.data = [i \in DOMAIN wavelength_nm_input.data |->
                              Mul[wavelength_nm_input.data[i], EPSILON]]]
          ELSE wavelength_nm_input
    /\ UNCHANGED <<T_kelvin, earlier, B_Wien, EPSILON, TEMP_COLORS>>
    /\ UNCHANGED sceneVars

\* a call of pseudo_planck, lines 26-67: it binds result and writes nothing
\* else; line 37 builds lambda_m as a new array, which nothing reads
Call ==
    /\ pc = "ready"
    /\ result' = pseudo_planck(wavelength_nm_input, T_kelvin, B_Wien, EPSILON)
    /\ pc' = "done"
    /\ UNCHANGED <<wavelength_nm_input, T_kelvin, earlier, B_Wien, EPSILON, TEMP_COLORS>>
    /\ UNCHANGED sceneVars

\* arguments of lines 464-467 and 515-516: a spectral wavelength (the first
\* and the last of lines 446-451) at a temperature of the list of line 459
SceneArguments ==
    {<<FromInt(T), PyFloat(FromInt(w))>> :
        T \in {300, 2500, 3000, 4000, 5000}, w \in {410, 660}}

\* what the caller keeps of the call that has just ended
ThisCall ==
    [T |-> T_kelvin, wavelength |-> wavelength_nm_input, returned |-> result,
     between |-> FALSE]

\* the caller goes on to its next call.  It remembers one call whose
\* arguments can come again, and notes when other calls have ended since.
NextArguments ==
    /\ pc = "done"
    /\ \E a \in SceneArguments :
          /\ T_kelvin' = a[1]
          /\ wavelength_nm_input' = a[2]
    /\ \/ /\ earlier = NoCall
          /\ earlier' = NoCall
       \/ /\ earlier = NoCall
          /\ <<T_kelvin, wavelength_nm_input>> \in SceneArguments
          /\ earlier' = ThisCall
       \/ /\ earlier # NoCall
          /\ earlier' = [earlier EXCEPT !.between = TRUE]
    /\ result' = NoResult
    /\ pc' = "ready"
    /\ UNCHANGED <<B_Wien, EPSILON, TEMP_COLORS>>
    /\ UNCHANGED sceneVars

Next == Call \/ NextArguments

Spec == Init /\ [][Next]_vars

-----------------------------------------------------------------------------
(* What a state shows of the last call.                                     *)

Returned == pc = "done" /\ result.type \in {"float", "float64", "ndarray"}
PositiveT == T_kelvin.m > 0
Idx == DOMAIN wavelength_nm_input.data
W(i) == wavelength_nm_input.data[i]
R(i) == result.data[i]
IsArg1d == wavelength_nm_input.type = "ndarray" /\ wavelength_nm_input.ndim = 1

\* the peak wavelength as the caller computes it for the call's temperature
CallerPeak == lambda_max_nm(T_kelvin, B_Wien_Value, EPSILON_Value)

\* the value pseudo_planck returns for the scalar wavelength w at temperature T
ValueAt(w, T) == pseudo_planck(PyFloat(w), T, B_Wien_Value, EPSILON_Value).data[1]

-----------------------------------------------------------------------------
\* C1: with T <= 0 the call returns zero in the shape of the wavelength
\* argument: the Python float 0.0 for a scalar, and for an array an array of
\* the same dimension and number of elements, every element zero.
C1_ZeroForNonPositiveT ==
    (pc = "done" /\ ~PositiveT) =>
        /\ wavelength_nm_input.type = "float" => result = PyFloat(Zero)
        /\ wavelength_nm_input.type = "ndarray" =>
              /\ result.type = "ndarray"
              /\ result.ndim = wavelength_nm_input.ndim
              /\ Len(result.data) = Len(wavelength_nm_input.data)
              /\ \A i \in DOMAIN result.data : result.data[i] = Zero

\* a call with T <= 0 on a 1-d array of MaxLen non-zero wavelengths has returned
C1_Witness ==
    /\ pc = "done" /\ ~PositiveT /\ IsArg1d
    /\ Len(wavelength_nm_input.data) = MaxLen
    /\ \A i \in Idx : W(i).m > 0
    /\ result.type = "ndarray" /\ \A i \in DOMAIN result.data : R(i) = Zero

-----------------------------------------------------------------------------
(* C2.  "The maximum is at c, within tolerance": every wavelength of the    *)
(* call farther from c than the tolerance has a value strictly below the    *)
(* value at c.  The tolerance is c/64 plus EPSILON nm.                      *)

Tolerance == Div[One, FromInt(64)]
Dist(a, b) == IF Lt(a, b) THEN Sub[b, a] ELSE Sub[a, b]
Far(w, c) == Gt(Dist(w, c), Add[Mul[c, Tolerance], EPSILON_Value])
MaximalWithin(c) == \A i \in Idx : Far(W(i), c) => Lt(R(i), ValueAt(c, T_kelvin))

\* Wien's constant / T in nanometres: 2.898e6 / T
WienPeak(T) == Mul[Div[B_Wien_Value, T], Lit_1e9]

C2_Body ==
    /\ MaximalWithin(WienPeak(T_kelvin))
    /\ \A T2 \in Temps : Gt(T2, T_kelvin) => Lt(WienPeak(T2), WienPeak(T_kelvin))
    /\ T_kelvin = FromInt(5800) => MaximalWithin(FromInt(500))
    /\ T_kelvin = FromInt(3000) => MaximalWithin(FromInt(966))

-----------------------------------------------------------------------------
\* C3: for every T > 0, a wavelength exactly at the peak gets the maximum of
\* the curve, which is 1 before scaling, that is exactly (T / 1000)^4: the
\* value at the peak is Scale(T), and no value of the call exceeds it.
C3_PeakValueIsScale ==
    (Returned /\ PositiveT) =>
        /\ \A i \in Idx : W(i) = CallerPeak => R(i) = Scale(T_kelvin)
        /\ \A i \in Idx : Le(R(i), Scale(T_kelvin))

\* a call on the array <<peak, w>> has returned Scale(T) and a smaller value
C3_Witness ==
    /\ Returned /\ PositiveT /\ IsArg1d
    /\ Len(wavelength_nm_input.data) = 2
    /\ W(1) = CallerPeak /\ R(1) = Scale(T_kelvin)
    /\ R(2).m > 0 /\ Lt(R(2), R(1))

\* a scalar call exactly at the peak has returned Scale(T)
C3_WitnessScalar ==
    /\ Returned /\ PositiveT /\ wavelength_nm_input.type = "float"
    /\ W(1) = CallerPeak /\ R(1) = Scale(T_kelvin) /\ R(1).m > 0

-----------------------------------------------------------------------------
\* C4: for every T > 0 the value does not increase with the distance from the
\* peak, on each side by itself: for w1 <= w2 <= peak the value at w1 is at
\* most the value at w2, for peak < w1 <= w2 it is at least the value at w2.
C4_MonotoneEachSide ==
    (Returned /\ PositiveT) =>
        \A i, j \in Idx :
            /\ (Le(W(i), W(j)) /\ Le(W(j), CallerPeak)) => Le(R(i), R(j))
            /\ (Lt(CallerPeak, W(i)) /\ Le(W(i), W(j))) => Ge(R(i), R(j))

\* a call has returned strictly increasing values for two wavelengths below
\* the peak
C4_WitnessLeft ==
    /\ Returned /\ PositiveT /\ IsArg1d /\ Len(wavelength_nm_input.data) = 2
    /\ Lt(W(1), W(2)) /\ Le(W(2), CallerPeak)
    /\ R(1).m > 0 /\ Lt(R(1), R(2))

\* a call has returned strictly decreasing values for two wavelengths above
\* the peak
C4_WitnessRight ==
    /\ Returned /\ PositiveT /\ IsArg1d /\ Len(wavelength_nm_input.data) = 2
    /\ Lt(CallerPeak, W(1)) /\ Lt(W(1), W(2))
    /\ R(2).m > 0 /\ Lt(R(2), R(1))

-----------------------------------------------------------------------------
\* C5: for every T > 0 the value at the peak of the curve for 2T is 16 times
\* the value at the peak of the curve for T, each at its own peak wavelength.
C5_PeakScalesBy16 ==
    (Returned /\ PositiveT) =>
        \A i \in Idx :
            W(i) = CallerPeak =>
                LET T2 == Mul[Two, T_kelvin]
                    r2 == pseudo_planck(
                              PyFloat(lambda_max_nm(T2, B_Wien_Value, EPSILON_Value)),
                              T2, B_Wien, EPSILON)
                IN r2.type = "float" => r2.data[1] = Mul[FromInt(16), R(i)]

\* a call at the peak has returned a positive value, and the call at the peak
\* for twice the temperature returns a value too
C5_Witness ==
    /\ Returned /\ PositiveT /\ wavelength_nm_input.type = "float"
    /\ W(1) = CallerPeak /\ R(1).m > 0
    /\ LET T2 == Mul[Two, T_kelvin]
       IN ValueAt(lambda_max_nm(T2, B_Wien_Value, EPSILON_Value), T2)
             = Mul[FromInt(16), R(1)]

-----------------------------------------------------------------------------
\* C6: for T > 0 the result has the shape of the wavelength argument: one
\* number for a scalar, and for an array of n wavelengths an array of n values
\* whose i-th element is the scalar result for the i-th wavelength.
C6_ShapeAndElementwise ==
    (Returned /\ PositiveT) =>
        /\ result.ndim = wavelength_nm_input.ndim
        /\ Len(result.data) = Len(wavelength_nm_input.data)
        /\ wavelength_nm_input.type = "float" => result.type = "float"
        /\ IsArg1d => result.type = "ndarray"
        /\ \A i \in Idx : R(i) = ValueAt(W(i), T_kelvin)

\* a call on an array with one wavelength on each side of the peak has
\* returned two different positive values
C6_Witness ==
    /\ Returned /\ PositiveT /\ IsArg1d /\ Len(wavelength_nm_input.data) = 2
    /\ Lt(W(1), CallerPeak) /\ Lt(CallerPeak, W(2))
    /\ result.type = "ndarray" /\ Len(result.data) = 2
    /\ R(1).m > 0 /\ R(2).m > 0 /\ R(1) # R(2)

-----------------------------------------------------------------------------
\* C7: for every wavelength and every temperature, positive, zero or
\* negative, every value returned is non-negative.
C7_NonNegative ==
    Returned => \A i \in DOMAIN result.data : R(i).m >= 0

\* a call with T > 0 has returned an array that holds a positive value and a
\* zero (a Gaussian tail that underflowed)
C7_Witness ==
    /\ Returned /\ PositiveT /\ result.type = "ndarray"
    /\ \E i, j \in DOMAIN result.data : R(i).m > 0 /\ R(j) = Zero

-----------------------------------------------------------------------------
\* C8: the curve is narrower below the peak than above it: for every T > 0
\* and every distance d > 0 the value at peak + d is at least the value at
\* peak - d.
C8_WiderAbovePeak ==
    (Returned /\ PositiveT) =>
        \A i, j \in Idx :
            (/\ Lt(W(i), CallerPeak) /\ Lt(CallerPeak, W(j))
             /\ Sub[CallerPeak, W(i)] = Sub[W(j), CallerPeak])
                => Ge(R(j), R(i))

\* a call on <<peak - d, peak + d>> has returned a strictly larger value
\* above the peak
C8_Witness ==
    /\ Returned /\ PositiveT /\ IsArg1d /\ Len(wavelength_nm_input.data) = 2
    /\ Lt(W(1), CallerPeak) /\ Lt(CallerPeak, W(2))
    /\ Sub[CallerPeak, W(1)] = Sub[W(2), CallerPeak]
    /\ R(1).m > 0 /\ Gt(R(2), R(1))

-----------------------------------------------------------------------------
\* C9: pseudo_planck has no error outcome: for every T > 0, however large,
\* both widths are strictly positive, and for every wavelength, zero and the
\* exact peak included, the call returns a value.
C9_NoErrorOutcome ==
    pc = "done" =>
        /\ result.type \in {"float", "float64", "ndarray"}
        /\ PositiveT =>
              LET peak == peak_nm(T_kelvin, B_Wien, EPSILON)
              IN left_width(peak, EPSILON).m > 0 /\ right_width(peak, EPSILON).m > 0

\* the part of C9 the code keeps: both widths are strictly positive for every
\* T > 0, and a call that does not raise at line 63 returns a value
C9_WidthsPositive ==
    (pc = "done" /\ PositiveT) =>
        LET peak == peak_nm(T_kelvin, B_Wien, EPSILON)
        IN /\ left_width(peak, EPSILON).m > 0 /\ right_width(peak, EPSILON).m > 0
           /\ ~Overflows(Scale(T_kelvin)) => Returned

-----------------------------------------------------------------------------
\* C10: a call has no side effects: it leaves the caller's wavelength object
\* and the module constants B_Wien, EPSILON and TEMP_COLORS as they were, so a
\* call returns what an earlier call with the same arguments returned,
\* whatever calls were made in between: the result of every call is the
\* result for its arguments under the constants as the module defines them.
C10_NoSideEffects ==
    /\ [][(pc = "ready" /\ pc' = "done") =>
            /\ wavelength_nm_input' = wavelength_nm_input
            /\ T_kelvin' = T_kelvin
            /\ B_Wien' = B_Wien
            /\ EPSILON' = EPSILON
            /\ TEMP_COLORS' = TEMP_COLORS]_vars
    /\ []((/\ pc = "done"
           /\ earlier.T = T_kelvin
           /\ earlier.wavelength = wavelength_nm_input)
              => result = earlier.returned)
    /\ [](pc = "done" =>
            result = pseudo_planck(wavelength_nm_input, T_kelvin,
                                   B_Wien_Value, EPSILON_Value))

\* a call has returned the positive value an earlier call with the same
\* arguments returned, other calls having ended in between
C10_Witness ==
    /\ Returned /\ PositiveT
    /\ earlier.between
    /\ earlier.T = T_kelvin /\ earlier.wavelength = wavelength_nm_input
    /\ result = earlier.returned /\ R(1).m > 0
    /\ B_Wien = B_Wien_Value /\ EPSILON = EPSILON_Value
    /\ TEMP_COLORS = TEMP_COLORS_Value

-----------------------------------------------------------------------------
(* More of Python's and numpy's arithmetic, as the scenes use it.           *)

\* the largest integer not above x, for |x| < 2^31
Floor[x \in Num] ==
    IF x.e >= 0 THEN x.m * 2^x.e
    ELSE IF -x.e >= 31 THEN (IF x.m < 0 THEN -1 ELSE 0)
    ELSE x.m \div 2^(-x.e)

\* np.ceil and np.floor: the result is a float
np_ceil[x \in Num] == FromInt(-Floor[Neg[x]])
np_floor[x \in Num] == FromInt(Floor[x])

\* int(x): towards zero
py_int[x \in Num] == IF x.m < 0 THEN -Floor[Neg[x]] ELSE Floor[x]

\* x % 1 on floats: x - floor(x)
Mod1[x \in Num] == Sub[x, np_floor[x]]

\* abs(x)
py_abs[x \in Num] == IF x.m < 0 THEN Neg[x] ELSE x

\* max(a, b) and min(a, b) of Python: the first argument unless the second
\* is strictly larger (smaller)
py_max[a \in Num, b \in Num] == IF Gt(b, a) THEN b ELSE a
py_min[a \in Num, b \in Num] == IF Lt(b, a) THEN b ELSE a

\* np.clip(x, lo, hi)
np_clip[x \in Num, lo \in Num, hi \in Num] == py_min[py_max[x, lo], hi]

\* the whole part of the square root of n < 2^31, bit by bit from bit b
ISqrt[n \in Nat, b \in Int, r \in Nat] ==
    IF b < 0 THEN r
    ELSE LET c == r + 2^b
         IN ISqrt[n, b - 1, IF c <= n \div c THEN c ELSE r]

\* the square root of x > 0: of the mantissa, shifted to keep MantBits bits
\* and a sticky bit, at an even exponent
Sqrt[x \in Num] ==
    IF x.m <= 0 THEN Zero
    ELSE LET sh == IF x.e % 2 = 0 THEN MantBits + 1 ELSE MantBits
             M == x.m * 2^sh
             r == ISqrt[M, MantBits, 0]
             sticky == IF r * r = M THEN 0 ELSE 1
         IN Round[2 * r + sticky, ((x.e - sh) \div 2) - 1]

\* x ** 2.5 for x >= 0, line 508: x * x * sqrt(x)
Pow2_5[x \in Num] == Mul[Square[x], Sqrt[x]]

\* 10 ** k as a float, for a whole k in 0..9
Pow10[k \in Int] == FromInt(10^k)

\* np.floor(np.log10(x)) for 1 <= x < 1e9, line 242: the k with
\* 10^k <= x < 10^(k+1)
floor_log10[x \in Num] == CHOOSE k \in 0..8 : Le(Pow10[k], x) /\ Lt(x, Pow10[k + 1])

\* a decimal literal p/q of the code, rounded as Python rounds it
Lit(p, q) == Div[FromInt(p), FromInt(q)]

-----------------------------------------------------------------------------
(* The renderer and the scenes.  The renderer instantiates a scene and runs *)
(* its construct; self.play and self.wait return when the animation has     *)
(* been rendered, so construct is a sequence of steps.  While a play is     *)
(* rendered the library sets the animated values frame by frame and then    *)
(* runs the updaters of the scene's objects.                                *)

\* what the other specification's caller holds; no scene touches it
callVars == <<wavelength_nm_input, T_kelvin, result, pc, earlier>>

\* the module tables and constants
tables == <<B_Wien, EPSILON, TEMP_COLORS, TEMP_COLORS_CUBE, BULB_GLOW_COLORS, WIEN_CONSTANT>>

\* one animation command handed to the renderer: what is done to which
\* object, with the colour and the number it is given ("" and Zero if none)
Cmd(op, on, colour, value) == [op |-> op, on |-> on, colour |-> colour, value |-> value]

\* a construct calls pseudo_planck(w, T): the arguments are bound and the
\* call is under way
call(w, T) ==
    /\ pc = "none"
    /\ wavelength_nm_input' = w
    /\ T_kelvin' = T
    /\ pc' = "ready"
    /\ UNCHANGED <<result, earlier>>

\* the construct goes on with what the call returned; the call's arguments
\* and its result are gone with it
return ==
    /\ pc = "done"
    /\ pc' = "none"
    /\ wavelength_nm_input' = NoResult
    /\ T_kelvin' = Zero
    /\ result' = NoResult
    /\ UNCHANGED earlier

\* the frames the renderer draws of one play, after the first
Frames == 20

SceneInit ==
    /\ T_kelvin = Zero
    /\ wavelength_nm_input = NoResult
    /\ result = NoResult
    /\ pc = "none"
    /\ earlier = NoCall
    /\ B_Wien = B_Wien_Value
    /\ EPSILON = EPSILON_Value
    /\ TEMP_COLORS = TEMP_COLORS_Value
    /\ TEMP_COLORS_CUBE = TEMP_COLORS_CUBE_Value
    /\ BULB_GLOW_COLORS = BULB_GLOW_COLORS_Value
    /\ WIEN_CONSTANT = WIEN_CONSTANT_Value
    /\ scene = "none"
    /\ at = "none"
    /\ frame = NoFrame
    /\ played = <<>>
    /\ first = NoRuns

\* the renderer is asked for a scene: it instantiates the class and calls
\* construct, whose local variables do not exist yet
Render ==
    /\ scene = "none"
    /\ \E s \in Scenes : scene' = s
    /\ at' = "start"
    /\ frame' = NoFrame
    /\ played' = <<>>
    /\ UNCHANGED <<first, tables, callVars>>

\* construct has returned: the renderer writes the video and forgets the scene
SceneEnd ==
    /\ at = "end"
    /\ first' = IF first[scene] = <<>> THEN [first EXCEPT ![scene] = played] ELSE first
    /\ scene' = "none"
    /\ at' = "none"
    /\ frame' = NoFrame
    /\ UNCHANGED <<played, tables, callVars>>

-----------------------------------------------------------------------------
(* Anim1_BlackCubeAbsorption.construct, src/anne.py lines 19-107.           *)

\* lines 23-57: the square, its label and the five beams, grown
Anim1_Beams ==
    /\ scene = "Anim1_BlackCubeAbsorption" /\ at = "start"
    /\ frame' = [scene |-> scene,
                 square |-> [fill |-> "BLACK", opacity |-> One, updaters |-> FALSE],
                 outer_glow |-> [fill |-> "", opacity |-> Zero, updaters |-> FALSE],
                 beams |-> "grown",
                 temp_tracker |-> Zero,
                 k |-> 0]
    /\ played' = played \o
          << Cmd("Create", "square", "BLACK", Zero),
             Cmd("Write", "square_label", "", Zero),
             Cmd("wait", "", "", Half),
             Cmd("GrowArrow", "beams", "", Two),
             Cmd("wait", "", "", Half) >>
    /\ at' = "beams"
    /\ UNCHANGED <<scene, first, tables, callVars>>

\* lines 59-67: every beam shrinks into its impact dot, then fades out
Anim1_Absorb ==
    /\ scene = "Anim1_BlackCubeAbsorption" /\ at = "beams"
    /\ frame' = [frame EXCEPT !.beams = "faded"]
    /\ played' = played \o
          << Cmd("Transform", "beams", "", Half),
             Cmd("FadeOut", "beams", "", Zero),
             Cmd("wait", "", "", Half) >>
    /\ at' = "absorbed"
    /\ UNCHANGED <<scene, first, tables, callVars>>

\* lines 70-97: the title, the tracker at 0, the two updaters
Anim1_AddUpdaters ==
    /\ scene = "Anim1_BlackCubeAbsorption" /\ at = "absorbed"
    /\ frame' = [frame EXCEPT !.temp_tracker = Zero,
                              !.square.updaters = TRUE,
                              !.outer_glow.updaters = TRUE,
                              !.k = 0]
    /\ played' = played \o << Cmd("ReplacementTransform", "square_label", "", Zero) >>
    /\ at' = "glow"
    /\ UNCHANGED <<scene, first, tables, callVars>>

\* the tracker set beyond the last table entry
glow_target_PastEnd(table) == Sub[FromInt(Len(table)), Lit(1, 1000)]

\* line 99: the value the tracker is animated to, len(TEMP_COLORS_CUBE) - 1.001
glow_target(table) == Sub[FromInt(Len(table)), Lit(1001, 1000)]

\* lines 80-84 and 89-93: the colour the updaters compute for the tracker's
\* value v (the table is 0-based in the code, 1-based here)
glow_color(v, table) ==
    interpolate_color(
        table[(py_int[v] % Len(table)) + 1][2],
        table[(IF Len(table) - 1 < py_int[v] + 1 THEN Len(table) - 1 ELSE py_int[v] + 1) + 1][2],
        Mod1[v])

\* line 99, one frame of the play: rate_func=linear puts the tracker at the
\* frame's share of the way from 0 to the target, then the updaters of the
\* square and of the outer glow set their fills (lines 79-95)
Anim1_GlowFrame ==
    /\ scene = "Anim1_BlackCubeAbsorption" /\ at = "glow"
    /\ frame.k <= Frames
    /\ LET v == Mul[glow_target(TEMP_COLORS_CUBE), Lit(frame.k, Frames)]
       IN frame' = [frame EXCEPT
                      !.temp_tracker = v,
                      !.square.fill = glow_color(v, TEMP_COLORS_CUBE),
                      !.square.opacity = One,
                      !.outer_glow.fill = glow_color(v, TEMP_COLORS_CUBE),
                      !.outer_glow.opacity = Lit(3, 10),
                      !.k = frame.k + 1]
    /\ UNCHANGED <<scene, at, played, first, tables, callVars>>

\* lines 99-107: the play has ended; the updaters are cleared, the fills set
\* to the last entry's colour, and everything fades out
Anim1_Finish ==
    /\ scene = "Anim1_BlackCubeAbsorption" /\ at = "glow"
    /\ frame.k = Frames + 1
    /\ frame' = [frame EXCEPT
                   !.square = [fill |-> TEMP_COLORS_CUBE[Len(TEMP_COLORS_CUBE)][2],
                               opacity |-> One, updaters |-> FALSE],
                   !.outer_glow = [fill |-> TEMP_COLORS_CUBE[Len(TEMP_COLORS_CUBE)][2],
                                   opacity |-> Lit(3, 10), updaters |-> FALSE]]
    /\ played' = played \o
          << Cmd("set_value", "temp_tracker", "", glow_target(TEMP_COLORS_CUBE)),
             Cmd("set_fill", "square", TEMP_COLORS_CUBE[Len(TEMP_COLORS_CUBE)][2], One),
             Cmd("set_fill", "outer_glow", TEMP_COLORS_CUBE[Len(TEMP_COLORS_CUBE)][2], Lit(3, 10)),
             Cmd("wait", "", "", Two),
             Cmd("FadeOut", "square", "", Zero) >>
    /\ at' = "end"
    /\ UNCHANGED <<scene, first, tables, callVars>>

Anim1 == Anim1_Beams \/ Anim1_Absorb \/ Anim1_AddUpdaters \/ Anim1_GlowFrame \/ Anim1_Finish

-----------------------------------------------------------------------------
(* BlackbodyRadiationExplained.construct, src/blackbody_explained.py lines  *)
(* 71-388: the nail that is heated (lines 86-137).                          *)

\* line 104: [tc for tc in TEMP_COLORS if tc[0] <= 3000]
nail_heating_colors(table) == SelectSeq(table, LAMBDA tc : tc[1] <= 3000)

\* the entries above 3000 K are deleted from the module table itself
Nail_Setup_InPlace ==
    /\ scene = "BlackbodyRadiationExplained" /\ at = "start"
    /\ frame' = [scene |-> scene,
                 temp_value |-> FromInt(300),
                 nail |-> [fill |-> "DARK_GRAY", opacity |-> One],
                 nail_heating_colors |-> nail_heating_colors(TEMP_COLORS),
                 i |-> 0,
                 previous_temp |-> FromInt(300),
                 anim_time |-> Zero,
                 visited |-> <<>>]
    /\ played' = played \o
          << Cmd("Write", "title", "", Zero),
             Cmd("FadeOut", "title", "", Zero),
             Cmd("Create", "nail", "DARK_GRAY", Zero),
             Cmd("Write", "temp_display", "", FromInt(300)),
             Cmd("wait", "", "", One) >>
    /\ at' = "nail"
    /\ TEMP_COLORS' = nail_heating_colors(TEMP_COLORS)
    /\ UNCHANGED <<scene, first, callVars, B_Wien, EPSILON, TEMP_COLORS_CUBE,
                   BULB_GLOW_COLORS, WIEN_CONSTANT>>

\* lines 72-104: the title, the nail, the display at 300 K
Nail_Setup ==
    /\ scene = "BlackbodyRadiationExplained" /\ at = "start"
    /\ frame' = [scene |-> scene,
                 temp_value |-> FromInt(300),
                 nail |-> [fill |-> "DARK_GRAY", opacity |-> One],
                 nail_heating_colors |-> nail_heating_colors(TEMP_COLORS),
                 i |-> 0,
                 previous_temp |-> FromInt(300),
                 anim_time |-> Zero,
                 visited |-> <<>>]
    /\ played' = played \o
          << Cmd("Write", "title", "", Zero),
             Cmd("FadeOut", "title", "", Zero),
             Cmd("Create", "nail", "DARK_GRAY", Zero),
             Cmd("Write", "temp_display", "", FromInt(300)),
             Cmd("wait", "", "", One) >>
    /\ at' = "nail"
    /\ UNCHANGED <<scene, first, tables, callVars>>

\* the entry at the displayed temperature skipped as well
nail_skips_OrEqual(target_temp, displayed) == Le(FromInt(target_temp), displayed)

\* line 108: target_temp < temp_value.get_value()
nail_skips(target_temp, displayed) == Lt(FromInt(target_temp), displayed)

\* lines 111-112: the run time of a step
nail_anim_time(target_temp, previous_temp) ==
    LET anim_time == Add[Half, Div[py_abs[Sub[FromInt(target_temp), previous_temp]], FromInt(500)]]
    IN IF Le(anim_time, Zero) THEN Lit(2, 10) ELSE anim_time

\* lines 106-118: one iteration of the heating loop, entry i of the list
Nail_Iteration ==
    /\ scene = "BlackbodyRadiationExplained" /\ at = "nail"
    /\ frame.i < Len(frame.nail_heating_colors)
    /\ LET target_temp == frame.nail_heating_colors[frame.i + 1][1]
           target_color == frame.nail_heating_colors[frame.i + 1][2]
           previous_temp == frame.temp_value
           anim_time == nail_anim_time(target_temp, previous_temp)
       IN IF nail_skips(target_temp, frame.temp_value)
          THEN /\ frame' = [frame EXCEPT !.i = frame.i + 1]
               /\ UNCHANGED played
          ELSE /\ frame' = [frame EXCEPT
                              !.i = frame.i + 1,
                              !.previous_temp = previous_temp,
                              !.anim_time = anim_time,
                              !.temp_value = FromInt(target_temp),
                              !.nail = [fill |-> target_color, opacity |-> One],
                              !.visited = Append(frame.visited, frame.i)]
               /\ played' = played \o
                     << Cmd("set_value", "temp_value", "", FromInt(target_temp)),
                        Cmd("set_fill", "nail", target_color, One),
                        Cmd("run_time", "", "", anim_time),
                        Cmd("wait", "", "", Half) >>
    /\ UNCHANGED <<scene, at, first, tables, callVars>>

-----------------------------------------------------------------------------
(* The spectrum with dynamic axes, lines 194-342.                           *)

\* line 200
temps_to_plot == <<1000, 1500, 2500, 4000>>

\* lines 201-203
plot_colors_map == [T \in {1000, 1500, 2500, 4000} |->
    CASE T = 1000 -> "RED_D" [] T = 1500 -> "ORANGE" [] T = 2500 -> "YELLOW_D"
      [] OTHER -> "WHITE"]

\* line 214: [200, 1500, 200]
fixed_x_range == <<FromInt(200), FromInt(1500), FromInt(200)>>

\* the number of samples of line 213
linspace_num == 200

\* line 213: np.linspace(200, 1500, 200): start + i * step, the last one stop
wavelengths_for_axis_scaling ==
    LET step == Div[FromInt(1300), FromInt(linspace_num - 1)]
    IN NdArray(1, [i \in 1..linspace_num |->
                     IF i = linspace_num THEN FromInt(1500)
                     ELSE Add[Mul[FromInt(i - 1), step], FromInt(200)]])

\* a graphical object of the spectrum: a curve, a dot or a label of the
\* temperature T, made in iteration it; a dot is at the axes' (x, y)
Mob(kind, T, it, x, y) == [kind |-> kind, T |-> T, it |-> it, x |-> x, y |-> y]

\* Python's None where an object is expected, lines 205-207
None == Mob("None", 0, 0, Zero, Zero)

\* lines 119-214: the nail fades out, Wien's and Stefan-Boltzmann's laws are
\* shown, and the spectrum section starts with nothing on screen
Spectrum_Setup ==
    /\ scene = "BlackbodyRadiationExplained" /\ at = "nail"
    /\ frame.i = Len(frame.nail_heating_colors)
    /\ frame' = [scene |-> scene,
                 temp_value |-> frame.temp_value,
                 nail |-> frame.nail,
                 T_plot_idx |-> 0,
                 current_axes_mob |-> None,
                 plots_on_screen |-> <<>>,
                 dots_on_screen |-> <<>>,
                 temp_labels_on_screen |-> <<>>,
                 plot_data_accumulator |-> <<>>,
                 max_intensity_so_far |-> Zero,
                 p_data |-> 1,
                 target_y_range |-> [y_max_limit |-> Zero, y_step |-> Zero],
                 all_target_plots |-> <<>>,
                 all_target_dots |-> <<>>,
                 all_target_labels |-> <<>>,
                 current_animations |-> <<>>]
    /\ played' = played \o
          << Cmd("wait", "", "", Two),
             Cmd("Write", "explanation2", "", Zero),
             Cmd("FadeOut", "nail", "", Zero),
             Cmd("Write", "wien_title", "", Zero),
             Cmd("FadeOut", "wien_title", "", Zero),
             Cmd("Write", "stefan_title", "", Zero),
             Cmd("FadeOut", "stefan_title", "", Zero),
             Cmd("Write", "spectrum_title", "", Zero) >>
    /\ at' = "spectrum"
    /\ UNCHANGED <<scene, first, tables, callVars>>

\* np.max of the elements lo..hi of a non-empty array, line 233
np_max[xs \in Seq(Num), lo \in Nat, hi \in Nat] ==
    IF lo = hi THEN xs[lo]
    ELSE LET mid == (lo + hi) \div 2
         IN py_max[np_max[xs, lo, mid], np_max[xs, mid + 1, hi]]

\* what a call of pseudo_planck returns, as an object
PyObject == [type : {"float", "float64", "ndarray", "OverflowError"},
             ndim : Nat, data : Seq(Num)]

\* lines 230-233: the running maximum m against the samples of one curve
sampled_max[sampled_intensities \in PyObject, m \in Num] ==
    IF sampled_intensities.type = "ndarray" /\ Len(sampled_intensities.data) > 0
    THEN py_max[m, np_max[sampled_intensities.data, 1, Len(sampled_intensities.data)]]
    ELSE m

\* lines 235-236: y_max_limit = max_intensity_so_far * 1.2, 10.0 if that
\* is at most 0.01
y_max_limit_raw[m \in Num] ==
    IF Le(Mul[m, Lit(12, 10)], Lit(1, 100)) THEN FromInt(10) ELSE Mul[m, Lit(12, 10)]

\* line 242: 10**np.floor(np.log10(y_max_limit/5)), for a fifth of at least 1
power_of_10[fifth \in Num] == Pow10[floor_log10[fifth]]

\* line 243: np.ceil(y_max_limit / 5 / power_of_10) * power_of_10
y_step_decade[fifth \in Num, p \in Num] == Mul[np_ceil[Div[fifth, p]], p]

\* the 25th part rounded down to a whole number of fives
y_step_fives_Floor(twentyfifth) == Mul[np_floor[twentyfifth], FromInt(5)]

\* line 240: np.ceil(y_max_limit / 5 / 5) * 5
y_step_fives(twentyfifth) == Mul[np_ceil[twentyfifth], FromInt(5)]

\* lines 238-243: y_step for the limit y and its fifth
y_step_raw[y \in Num, fifth \in Num] ==
    IF Lt(y, One) THEN Lit(2, 10)
    ELSE IF Lt(y, FromInt(10)) THEN np_ceil[fifth]
    ELSE IF Lt(y, FromInt(100)) THEN y_step_fives(Div[fifth, FromInt(5)])
    ELSE y_step_decade[fifth, power_of_10[fifth]]

\* line 244: if y_step <= 0: y_step = 1.0
y_step_positive[s \in Num] == IF Le(s, Zero) THEN One ELSE s

\* line 246: if y_max_limit == 0: y_max_limit = y_step * 5
y_max_limit_nonzero[y \in Num, s \in Num] == IF y.m = 0 THEN Mul[s, FromInt(5)] ELSE y

\* lines 245-248: target_y_range = [0, y_max_limit, y_step], the limit
\* rounded up to a whole number of steps
target_y_range[y \in Num, s \in Num] ==
    [y_max_limit |-> y_max_limit_nonzero[Mul[np_ceil[Div[y, s]], s], s], y_step |-> s]

\* lines 238-248 for the limit y of lines 235-236
y_range_of[y \in Num] ==
    target_y_range[y, y_step_positive[y_step_raw[y, Div[y, FromInt(5)]]]]

\* lines 235-248: the y axis for the largest intensity m
y_axis[m \in Num] == y_range_of[y_max_limit_raw[m]]

\* the peak only held against the lower end of the x range
has_dot_NoUpperX(l_max_nm, p_int_val, y_max_limit) ==
    /\ Le(fixed_x_range[1], l_max_nm)
    /\ Le(Zero, p_int_val) /\ Le(p_int_val, y_max_limit)

\* lines 265-266: the peak lies in the x range and in the y range
has_dot(l_max_nm, p_int_val, y_max_limit) ==
    /\ Le(fixed_x_range[1], l_max_nm) /\ Le(l_max_nm, fixed_x_range[2])
    /\ Le(Zero, p_int_val) /\ Le(p_int_val, y_max_limit)

\* an animation handed to self.play: what is done to mob, and the target of
\* a Transform (mob itself otherwise)
Anim(op, mob, target) == [op |-> op, mob |-> mob, target |-> target]

\* lines 261-263: a curve for every accumulated temperature
target_plots(acc, it) ==
    [j \in 1..Len(acc) |-> Mob("plot", acc[j].T, it, Zero, Zero)]

\* lines 264-269: a dot at the peak of every curve that has_dot accepts
target_dots(acc, y_max_limit, it) ==
    LET drawn == SelectSeq(acc, LAMBDA d : has_dot(d.lambda_max_nm, d.peak_intensity, y_max_limit))
    IN [j \in 1..Len(drawn) |->
          Mob("dot", drawn[j].T, it, drawn[j].lambda_max_nm, drawn[j].peak_intensity)]

\* lines 270-275: the label of every dot, next to it
target_labels(acc, y_max_limit, it) ==
    LET drawn == SelectSeq(acc, LAMBDA d : has_dot(d.lambda_max_nm, d.peak_intensity, y_max_limit))
    IN [j \in 1..Len(drawn) |->
          Mob("label", drawn[j].T, it, drawn[j].lambda_max_nm, drawn[j].peak_intensity)]

\* the first target curve added in place of the last
next_plots_on_screen_First(plots_on_screen, all_target_plots) ==
    Append(plots_on_screen, all_target_plots[1])

\* lines 300-301: plots_on_screen.add(all_target_plots[-1])
next_plots_on_screen(plots_on_screen, all_target_plots) ==
    Append(plots_on_screen, all_target_plots[Len(all_target_plots)])

\* lines 302-312 for the dots and 313-323 for the labels: the objects
\* tracked from now on, and the animations: a Transform of every object on
\* screen into its target, intro of every further target, a FadeOut of what
\* is on screen beyond the targets
track(on_screen, target, intro) ==
    [tracked |-> [k \in 1..Len(target) |->
                    IF k <= Len(on_screen) THEN on_screen[k] ELSE target[k]],
     anims |-> [k \in 1..Len(target) |->
                    IF k <= Len(on_screen)
                    THEN Anim("Transform", on_screen[k], target[k])
                    ELSE Anim(intro, target[k], target[k])]
               \o [k \in 1..(Len(on_screen) - Len(target)) |->
                    Anim("FadeOut", on_screen[Len(target) + k], on_screen[Len(target) + k])]]

\* the commands of a list of animations
AnimCmds(anims) ==
    [k \in 1..Len(anims) |-> Cmd(anims[k].op, anims[k].mob.kind, "", FromInt(anims[k].target.T))]

\* lines 216-222, the start of an iteration: pseudo_planck is called at the
\* peak wavelength of T_plot
Spectrum_Peak_Call ==
    /\ scene = "BlackbodyRadiationExplained" /\ at = "spectrum"
    /\ frame.T_plot_idx < Len(temps_to_plot)
    /\ call(PyFloat(lambda_max_nm(FromInt(temps_to_plot[frame.T_plot_idx + 1]),
                                  B_Wien, EPSILON)),
            FromInt(temps_to_plot[frame.T_plot_idx + 1]))
    /\ at' = "peak"
    /\ UNCHANGED <<scene, frame, played, first, tables>>

\* lines 222-226: the curve of T_plot is accumulated with its colour, its
\* peak wavelength and the intensity the call returned; plot_function is
\* pseudo_planck at T
Spectrum_Accumulate ==
    /\ scene = "BlackbodyRadiationExplained" /\ at = "peak"
    /\ return
    /\ LET T_plot == temps_to_plot[frame.T_plot_idx + 1]
       IN frame' = [frame EXCEPT
                      !.plot_data_accumulator =
                          Append(@, [T |-> T_plot, color |-> plot_colors_map[T_plot],
                                     lambda_max_nm |->
                                         lambda_max_nm(FromInt(T_plot), B_Wien, EPSILON),
                                     peak_intensity |-> result.data[1]]),
                      !.max_intensity_so_far = Lit(1, 1000),
                      !.p_data = 1]
    /\ at' = "sample"
    /\ UNCHANGED <<scene, played, first, tables>>

\* lines 227-229: the peak value of the next accumulated curve is held
\* against the maximum, and its plot_function is called on the samples
Spectrum_Sample_Call ==
    /\ scene = "BlackbodyRadiationExplained" /\ at = "sample"
    /\ frame.p_data <= Len(frame.plot_data_accumulator)
    /\ call(wavelengths_for_axis_scaling,
            FromInt(frame.plot_data_accumulator[frame.p_data].T))
    /\ frame' = [frame EXCEPT !.max_intensity_so_far =
                    py_max[@, frame.plot_data_accumulator[frame.p_data].peak_intensity]]
    /\ at' = "sampled"
    /\ UNCHANGED <<scene, played, first, tables>>

\* lines 229-233: the largest sample is held against the maximum
Spectrum_Sampled ==
    /\ scene = "BlackbodyRadiationExplained" /\ at = "sampled"
    /\ return
    /\ frame' = [frame EXCEPT
                   !.max_intensity_so_far = sampled_max[result, @],
                   !.p_data = @ + 1]
    /\ at' = "sample"
    /\ UNCHANGED <<scene, played, first, tables>>

\* lines 235-248: the y axis is chosen for all accumulated curves
Spectrum_Axes ==
    /\ scene = "BlackbodyRadiationExplained" /\ at = "sample"
    /\ frame.p_data > Len(frame.plot_data_accumulator)
    /\ frame' = [frame EXCEPT !.target_y_range = y_axis[frame.max_intensity_so_far]]
    /\ at' = "targets"
    /\ UNCHANGED <<scene, played, first, tables, callVars>>

\* lines 283-291: the first curve, dot and label are created
first_animations(plots, dots, labels) ==
    (IF Len(plots) > 0 THEN <<Anim("Create", plots[1], plots[1])>> ELSE <<>>)
    \o (IF Len(dots) > 0 THEN <<Anim("FadeIn", dots[1], dots[1])>> ELSE <<>>)
    \o (IF Len(labels) > 0 THEN <<Anim("Write", labels[1], labels[1])>> ELSE <<>>)

\* lines 278-291: the locals after the branch of the first iteration
first_shown(locals, axes, plots, dots, labels) ==
    [locals EXCEPT
       !.current_axes_mob = axes,
       !.plots_on_screen = IF Len(plots) > 0 THEN Append(@, plots[1]) ELSE @,
       !.dots_on_screen = IF Len(dots) > 0 THEN Append(@, dots[1]) ELSE @,
       !.temp_labels_on_screen = IF Len(labels) > 0 THEN Append(@, labels[1]) ELSE @,
       !.all_target_plots = plots,
       !.all_target_dots = dots,
       !.all_target_labels = labels,
       !.current_animations = first_animations(plots, dots, labels),
       !.T_plot_idx = @ + 1]

\* lines 293-323: the axes and every curve on screen are transformed, the
\* new curve is created, the dots and the labels are tracked
later_animations(locals, axes, plots, dots, labels) ==
    <<Anim("Transform", locals.current_axes_mob, axes)>>
    \o [k \in 1..Len(locals.plots_on_screen) |->
          Anim("Transform", locals.plots_on_screen[k], plots[k])]
    \o <<Anim("Create", plots[Len(plots)], plots[Len(plots)])>>
    \o track(locals.dots_on_screen, dots, "FadeIn").anims
    \o track(locals.temp_labels_on_screen, labels, "Write").anims

\* lines 292-323: the locals after the branch of a later iteration
later_shown(locals, axes, plots, dots, labels) ==
    [locals EXCEPT
       !.plots_on_screen = next_plots_on_screen(@, plots),
       !.dots_on_screen = track(@, dots, "FadeIn").tracked,
       !.temp_labels_on_screen = track(@, labels, "Write").tracked,
       !.all_target_plots = plots,
       !.all_target_dots = dots,
       !.all_target_labels = labels,
       !.current_animations = later_animations(locals, axes, plots, dots, labels),
       !.T_plot_idx = @ + 1]

\* lines 277-323
shown(locals, axes, plots, dots, labels) ==
    IF locals.current_axes_mob = None
    THEN first_shown(locals, axes, plots, dots, labels)
    ELSE later_shown(locals, axes, plots, dots, labels)

\* lines 282 and 324-325: the axes are created in the first iteration, the
\* animations are played in 1.5 s, and the scene waits 0.7 s
play_cmds(locals, anims) ==
    << Cmd(IF locals.current_axes_mob = None THEN "Create" ELSE "y_max_limit",
           "axes", "", locals.target_y_range.y_max_limit),
       Cmd("y_step", "axes", "", locals.target_y_range.y_step) >>
    \o AnimCmds(anims)
    \o << Cmd("run_time", "", "", Lit(15, 10)), Cmd("wait", "", "", Lit(7, 10)) >>

\* lines 249-325, the end of an iteration: the targets are built on the new axes and
\* what is on screen is transformed into them
Spectrum_Plots ==
    /\ scene = "BlackbodyRadiationExplained" /\ at = "targets"
    /\ frame' = shown(frame,
                      Mob("axes", 0, frame.T_plot_idx, fixed_x_range[2],
                          frame.target_y_range.y_max_limit),
                      target_plots(frame.plot_data_accumulator, frame.T_plot_idx),
                      target_dots(frame.plot_data_accumulator,
                                  frame.target_y_range.y_max_limit, frame.T_plot_idx),
                      target_labels(frame.plot_data_accumulator,
                                    frame.target_y_range.y_max_limit, frame.T_plot_idx))
    /\ played' = played \o play_cmds(frame, frame'.current_animations)
    /\ at' = "spectrum"
    /\ UNCHANGED <<scene, first, tables, callVars>>

\* lines 327-388: the summary, the examples, the conclusion; everything fades
Spectrum_Done ==
    /\ scene = "BlackbodyRadiationExplained" /\ at = "spectrum"
    /\ frame.T_plot_idx = Len(temps_to_plot)
    /\ played' = played \o
          << Cmd("Write", "spectrum_summary", "", Zero),
             Cmd("FadeIn", "planck_text", "", Zero),
             Cmd("FadeOut", "elements_to_fade", "", Zero),
             Cmd("Write", "examples_title", "", Zero),
             Cmd("FadeOut", "examples_title", "", Zero),
             Cmd("Write", "conclusion", "", Zero),
             Cmd("FadeOut", "mobjects", "", Zero) >>
    /\ at' = "end"
    /\ UNCHANGED <<scene, frame, first, tables, callVars>>

Blackbody ==
    Nail_Setup \/ Nail_Iteration \/ Spectrum_Setup \/ Spectrum_Peak_Call
    \/ Spectrum_Accumulate \/ Spectrum_Sample_Call \/ Spectrum_Sampled \/ Spectrum_Axes
    \/ Spectrum_Plots
    \/ Spectrum_Done

-----------------------------------------------------------------------------
(* IncandescentBulbDiffraction.construct, lines 391-559.                    *)

\* lines 446-453: name, wavelength in nm and colour of the spectral lines
spectrum_defs ==
    << [name |-> "Violet", wl |-> 410, color |-> "PURPLE_B"],
       [name |-> "Blue", wl |-> 470, color |-> "BLUE_D"],
       [name |-> "Green", wl |-> 520, color |-> "GREEN_C"],
       [name |-> "Yellow", wl |-> 580, color |-> "YELLOW_C"],
       [name |-> "Orange", wl |-> 610, color |-> "ORANGE"],
       [name |-> "Red", wl |-> 660, color |-> "RED_D"] >>

\* the temperatures with two of them out of order
temps_for_bulb_animation_Swapped ==
    <<300, 800, 1200, 1600, 2000, 3000, 2500, 3500, 4000, 5000>>

\* line 459
temps_for_bulb_animation == <<300, 800, 1200, 1600, 2000, 2500, 3000, 3500, 4000, 5000>>

\* max(temps_for_bulb_animation), line 489
max_of(temps) == CHOOSE t \in {temps[i] : i \in DOMAIN temps} :
                     \A i \in DOMAIN temps : temps[i] <= t

\* lines 391-444: the title, the bulb with its display at 300 K, the grating
\* and the rays, drawn in the first colour of the table with opacity 0
Bulb_Setup ==
    /\ scene = "IncandescentBulbDiffraction" /\ at = "start"
    /\ frame' = [scene |-> scene,
                 temp_value_bulb |-> 300,
                 global_max_intensity_output |-> Lit(1, 100),
                 T_check_idx |-> 1,
                 spec_idx |-> 1,
                 max_possible_intensity_visible |-> Zero,
                 previous_opacities |-> <<>>,
                 T_idx |-> 0,
                 target_bulb_color_val |-> "DARK_GRAY",
                 ray_opacity_val |-> Zero,
                 current_target_opacities |-> [i \in 1..Len(spectrum_defs) |-> Zero],
                 projection_flash_anims |-> <<>>]
    /\ played' = played \o
          << Cmd("Write", "title", "", Zero),
             Cmd("Create", "bulb_group", "DARK_GRAY", One),
             Cmd("Write", "temp_display_bulb", "", FromInt(300)),
             Cmd("wait", "", "", Half),
             Cmd("Create", "grating", "", Zero),
             Cmd("Create", "light_path", TEMP_COLORS[1][2], Zero),
             Cmd("wait", "", "", Half) >>
    /\ at' = "normalise"
    /\ UNCHANGED <<scene, first, tables, callVars>>

\* the hottest temperature is left out as well
skipped_Hottest(T_check) == T_check < 600 \/ T_check >= 5000

\* line 465: if T_check < 600: continue
skipped(T_check) == T_check < 600

\* lines 464-465: a temperature below 600 K is passed over
Bulb_Skip ==
    /\ scene = "IncandescentBulbDiffraction" /\ at = "normalise"
    /\ frame.T_check_idx <= Len(temps_for_bulb_animation)
    /\ skipped(temps_for_bulb_animation[frame.T_check_idx])
    /\ frame' = [frame EXCEPT !.T_check_idx = @ + 1]
    /\ UNCHANGED <<scene, at, played, first, tables, callVars>>

\* lines 464-467: pseudo_planck is called for the next spectral line at the
\* next temperature of at least 600 K
Bulb_Check_Call ==
    /\ scene = "IncandescentBulbDiffraction" /\ at = "normalise"
    /\ frame.T_check_idx <= Len(temps_for_bulb_animation)
    /\ ~skipped(temps_for_bulb_animation[frame.T_check_idx])
    /\ call(PyFloat(FromInt(spectrum_defs[frame.spec_idx].wl)),
            FromInt(temps_for_bulb_animation[frame.T_check_idx]))
    /\ at' = "checked"
    /\ UNCHANGED <<scene, frame, played, first, tables>>

\* line 468: the intensity returned is held against the largest so far
Bulb_Check ==
    /\ scene = "IncandescentBulbDiffraction" /\ at = "checked"
    /\ return
    /\ frame' = [frame EXCEPT
                   !.global_max_intensity_output = py_max[@, result.data[1]],
                   !.spec_idx = IF @ = Len(spectrum_defs) THEN 1 ELSE @ + 1,
                   !.T_check_idx = IF frame.spec_idx = Len(spectrum_defs) THEN @ + 1 ELSE @]
    /\ at' = "normalise"
    /\ UNCHANGED <<scene, played, first, tables>>

\* lines 470-485: the constant is fixed, the six lines fade in with opacity 0
Bulb_Lines ==
    /\ scene = "IncandescentBulbDiffraction" /\ at = "normalise"
    /\ frame.T_check_idx > Len(temps_for_bulb_animation)
    /\ frame' = [frame EXCEPT
                   !.max_possible_intensity_visible = frame.global_max_intensity_output,
                   !.previous_opacities = [i \in 1..Len(spectrum_defs) |-> Zero]]
    /\ played' = played \o
          << Cmd("FadeIn", "spectral_lines", "", Zero), Cmd("wait", "", "", Half) >>
    /\ at' = "loop"
    /\ UNCHANGED <<scene, first, tables, callVars>>

\* the threshold has to be passed, not only reached
reached_Strictly(T_current, temp_threshold) == T_current > temp_threshold

\* line 494: if T_current >= temp_threshold
reached(T_current, temp_threshold) == T_current >= temp_threshold

\* lines 492-497: the table is read from entry k on; the colour of every
\* entry reached replaces color_val, the first entry not reached ends the loop
RECURSIVE target_bulb_color_val(_, _, _, _)
target_bulb_color_val(table, T_current, k, color_val) ==
    IF k > Len(table) THEN color_val
    ELSE IF reached(T_current, table[k][1])
         THEN target_bulb_color_val(table, T_current, k + 1, table[k][2])
         ELSE color_val

\* line 488: 700.0
glow_temp_min == FromInt(700)

\* line 508: np.clip(normalized_temp_for_glow**2.5, 0, 0.8)
glow_clip[normalized_temp_for_glow \in Num] ==
    np_clip[Pow2_5[normalized_temp_for_glow], Zero, Lit(8, 10)]

\* lines 504-508
ray_opacity_val[T_current \in Num, glow_temp_max \in Num, eps \in Num] ==
    IF Gt(T_current, glow_temp_min)
    THEN glow_clip[Div[Sub[T_current, glow_temp_min],
                       Add[Sub[glow_temp_max, glow_temp_min], eps]]]
    ELSE Zero

\* line 516, before the clip: float(intensity) / (max_possible_intensity_visible + EPSILON)
opacity_ratio[intensity \in Num, max_possible_intensity_visible \in Num, eps \in Num] ==
    Div[intensity, Add[max_possible_intensity_visible, eps]]

\* line 516
opacity_val[intensity \in Num, max_possible_intensity_visible \in Num, eps \in Num] ==
    np_clip[opacity_ratio[intensity, max_possible_intensity_visible, eps], Zero, One]

\* lines 499-523: the commands of the main play of an iteration
main_cmds(locals) ==
    << Cmd("set_value", "temp_value_bulb", "", FromInt(locals.temp_value_bulb)),
       Cmd("set_fill", "bulb_filament", locals.target_bulb_color_val, One),
       Cmd("set_stroke", "light_path", locals.target_bulb_color_val, locals.ray_opacity_val) >>
    \o [i \in 1..Len(spectrum_defs) |->
          Cmd("set_fill", spectrum_defs[i].name, "", locals.current_target_opacities[i])]
    \o << Cmd("run_time", "", "", IF locals.T_idx > 0 THEN Lit(8, 10) ELSE Lit(4, 10)) >>

\* lines 491-512: the colour and the ray opacity for T_current
Bulb_Main ==
    /\ scene = "IncandescentBulbDiffraction" /\ at = "loop"
    /\ frame.T_idx < Len(temps_for_bulb_animation)
    /\ LET T_current == temps_for_bulb_animation[frame.T_idx + 1]
       IN frame' = [frame EXCEPT
            !.temp_value_bulb = T_current,
            !.target_bulb_color_val =
                target_bulb_color_val(TEMP_COLORS, T_current, 1, "DARK_GRAY"),
            !.ray_opacity_val =
                ray_opacity_val[FromInt(T_current),
                                FromInt(max_of(temps_for_bulb_animation)), EPSILON],
            !.current_target_opacities = <<>>]
    /\ at' = "opacities"
    /\ UNCHANGED <<scene, played, first, tables, callVars>>

\* lines 514-515: pseudo_planck is called for the next spectral line
Bulb_Opacity_Call ==
    /\ scene = "IncandescentBulbDiffraction" /\ at = "opacities"
    /\ Len(frame.current_target_opacities) < Len(spectrum_defs)
    /\ call(PyFloat(FromInt(spectrum_defs[Len(frame.current_target_opacities) + 1].wl)),
            FromInt(frame.temp_value_bulb))
    /\ at' = "opacity"
    /\ UNCHANGED <<scene, frame, played, first, tables>>

\* lines 516-518: the opacity of the line for the intensity returned
Bulb_Opacity ==
    /\ scene = "IncandescentBulbDiffraction" /\ at = "opacity"
    /\ return
    /\ frame' = [frame EXCEPT !.current_target_opacities =
                    Append(@, opacity_val[result.data[1],
                                          frame.max_possible_intensity_visible, EPSILON])]
    /\ at' = "opacities"
    /\ UNCHANGED <<scene, played, first, tables>>

\* lines 520-523: the bulb, the rays and the six lines are animated together
Bulb_Play ==
    /\ scene = "IncandescentBulbDiffraction" /\ at = "opacities"
    /\ Len(frame.current_target_opacities) = Len(spectrum_defs)
    /\ played' = played \o main_cmds(frame)
    /\ at' = "flashes"
    /\ UNCHANGED <<scene, frame, first, tables, callVars>>

\* line 532: the line is visible and was not before, or has gained more than 0.1
prominent[new_opacity \in Num, previous_opacity \in Num] ==
    /\ Gt(new_opacity, Lit(5, 100))
    /\ \/ Lt(previous_opacity, Lit(5, 100))
       \/ Gt(new_opacity, Add[previous_opacity, Lit(1, 10)])

\* lines 529-537: the lines that get a projection flash, in order
projection_flash_anims(new_opacities, previous_opacities) ==
    SelectSeq([i \in 1..Len(spectrum_defs) |-> i],
              LAMBDA i : prominent[new_opacities[i], previous_opacities[i]])

\* lines 540-543: the flashes, if any, and the wait
flash_cmds(locals) ==
    [k \in 1..Len(locals.projection_flash_anims) |->
        Cmd("ShowPassingFlash", spectrum_defs[locals.projection_flash_anims[k]].name,
            spectrum_defs[locals.projection_flash_anims[k]].color, Zero)]
    \o << Cmd("wait", "", "", IF locals.temp_value_bulb < 3000 THEN Half ELSE Lit(8, 10)) >>

\* lines 526-543: the flashes of the lines that became prominent; the
\* opacities reached are remembered for the next iteration
Bulb_Flashes ==
    /\ scene = "IncandescentBulbDiffraction" /\ at = "flashes"
    /\ frame' = [frame EXCEPT
                   !.projection_flash_anims =
                       projection_flash_anims(frame.current_target_opacities,
                                              frame.previous_opacities),
                   !.previous_opacities = frame.current_target_opacities,
                   !.T_idx = @ + 1]
    /\ played' = played \o flash_cmds(frame')
    /\ at' = "loop"
    /\ UNCHANGED <<scene, first, tables, callVars>>

\* lines 545-559: the explanation, and everything fades
Bulb_Done ==
    /\ scene = "IncandescentBulbDiffraction" /\ at = "loop"
    /\ frame.T_idx = Len(temps_for_bulb_animation)
    /\ played' = played \o
          << Cmd("Write", "explanation", "", Zero),
             Cmd("wait", "", "", FromInt(4)),
             Cmd("FadeOut", "mobjects", "", Zero),
             Cmd("wait", "", "", One) >>
    /\ at' = "end"
    /\ UNCHANGED <<scene, frame, first, tables, callVars>>

Bulb ==
    Bulb_Setup \/ Bulb_Skip \/ Bulb_Check_Call \/ Bulb_Check \/ Bulb_Lines \/ Bulb_Main
    \/ Bulb_Opacity_Call \/ Bulb_Opacity \/ Bulb_Play \/ Bulb_Flashes \/ Bulb_Done

-----------------------------------------------------------------------------
(* PracticeProblemScene.construct, src/problems.py lines 45-121.            *)

\* src/problems.py line 7
GREEN_WAVELENGTH_NM == 550

\* src/problems.py line 8: GREEN_WAVELENGTH_NM * 1e-9
GREEN_WAVELENGTH_M == Mul[FromInt(GREEN_WAVELENGTH_NM), EPSILON_Value]

\* f"{x:.0f}": the nearest whole number, a tie to the even one
format_0f[x \in Num] ==
    IF Lt(Mod1[x], Half) THEN Floor[x]
    ELSE IF Gt(Mod1[x], Half) THEN Floor[x] + 1
    ELSE IF Floor[x] % 2 = 0 THEN Floor[x] ELSE Floor[x] + 1

\* src/problems.py lines 46-85: the problem, Wien's law and the constant
Practice_Setup ==
    /\ scene = "PracticeProblemScene" /\ at = "start"
    /\ frame' = [scene |-> scene, calculated_temp_val |-> Zero]
    /\ played' = played \o
          << Cmd("Write", "title_problem", "", Lit(7, 10)),
             Cmd("Write", "question", "", Lit(12, 10)),
             Cmd("Write", "recall_chart", "", Lit(7, 10)),
             Cmd("Write", "wien_law_intro", "", Lit(7, 10)),
             Cmd("Write", "wien_law_formula", "", Lit(7, 10)),
             Cmd("Write", "b_constant_text", "", Lit(7, 10)),
             Cmd("wait", "", "", Lit(15, 10)) >>
    /\ at' = "calculation"
    /\ UNCHANGED <<scene, first, tables, callVars>>

\* src/problems.py lines 87-121: the temperature is calculated and written
Practice_Result ==
    /\ scene = "PracticeProblemScene" /\ at = "calculation"
    /\ frame' = [frame EXCEPT !.calculated_temp_val = Div[WIEN_CONSTANT, GREEN_WAVELENGTH_M]]
    /\ played' = played \o
          << Cmd("FadeOut", "problem_setup_group", "", Half),
             Cmd("Write", "calc_title", "", Zero),
             Cmd("Write", "sub_intro_text", "", Zero),
             Cmd("Write", "substituted_formula", "", Zero),
             Cmd("Write", "result_temp", "YELLOW",
                 FromInt(format_0f[frame'.calculated_temp_val])),
             Cmd("wait", "", "", Lit(25, 10)),
             Cmd("FadeOut", "calculation_group", "", Half),
             Cmd("Write", "outro_text", "", Lit(12, 10)),
             Cmd("wait", "", "", Two),
             Cmd("FadeOut", "outro_text", "", Zero),
             Cmd("wait", "", "", Half) >>
    /\ at' = "end"
    /\ UNCHANGED <<scene, first, tables, callVars>>

Practice == Practice_Setup \/ Practice_Result

-----------------------------------------------------------------------------
(* Anim5_LightInteraction.construct, src/anne.py lines 459-528. Points and  *)
(* vectors are numpy arrays of three floats, <<x, y, z>>.                   *)

\* Line.get_vector, line 485: the end of the arrow less its start
get_vector(start, end) == [k \in 1..3 |-> Sub[end[k], start[k]]]

\* np.dot of two vectors of three, line 487
np_dot[a \in Seq(Num), b \in Seq(Num)] ==
    Add[Add[Mul[a[1], b[1]], Mul[a[2], b[2]]], Mul[a[3], b[3]]]

\* normalize, lines 486-487 and 512-514: the vector divided by its norm, the
\* zero vector if the norm is 0
normalize[vect \in Seq(Num)] ==
    IF Gt(Sqrt[np_dot[vect, vect]], Zero)
    THEN [k \in 1..3 |-> Div[vect[k], Sqrt[np_dot[vect, vect]]]]
    ELSE <<Zero, Zero, Zero>>

\* the part of the incoming vector along the normal taken away once, which
\* leaves the part along the surface
reflected_vec_dir_Projected(incoming_vec, surface_normal_vec) ==
    normalize[[k \in 1..3 |->
        Sub[incoming_vec[k],
            Mul[np_dot[incoming_vec, surface_normal_vec], surface_normal_vec[k]]]]]

\* line 487: normalize(incoming_vec
\*             - 2 * np.dot(incoming_vec, surface_normal_vec) * surface_normal_vec)
reflected_vec_dir(incoming_vec, surface_normal_vec) ==
    normalize[[k \in 1..3 |->
        Sub[incoming_vec[k],
            Mul[Mul[Two, np_dot[incoming_vec, surface_normal_vec]], surface_normal_vec[k]]]]]

\* lines 459-483: the surface, centred at (0, -1); the incident ray from
\* UP * 2.8 + LEFT * 3 to the impact point, 0.8 left of the centre; the
\* impact dot and the dashed normal
Anim5_Incident ==
    /\ scene = "Anim5_LightInteraction" /\ at = "start"
    /\ frame' = [scene |-> scene,
                 incident_start |-> <<Neg[FromInt(3)], Lit(28, 10), Zero>>,
                 impact_point_on_surface |->
                     <<Add[Zero, Neg[Lit(8, 10)]], Neg[One], Zero>>,
                 incoming_vec |-> <<Zero, Zero, Zero>>,
                 surface_normal_vec |-> <<Zero, Zero, Zero>>,
                 reflected_vec_dir |-> <<Zero, Zero, Zero>>,
                 reflected_ray |-> <<>>,
                 transmitted_vec_dir |-> <<Zero, Zero, Zero>>]
    /\ played' = played \o
          << Cmd("Create", "surface_line", "BLUE_GRAY", Zero),
             Cmd("Write", "surface_label", "BLUE_GRAY", Zero),
             Cmd("wait", "", "", Lit(2, 10)),
             Cmd("GrowArrow", "incident_ray", "YELLOW_C", Zero),
             Cmd("Write", "incident_label", "YELLOW_C", Zero),
             Cmd("wait", "", "", Half),
             Cmd("FadeIn", "impact_dot", "YELLOW_C", Zero),
             Cmd("Create", "normal", "WHITE", Zero),
             Cmd("wait", "", "", Lit(3, 10)) >>
    /\ at' = "incident"
    /\ UNCHANGED <<scene, first, tables, callVars>>

\* lines 485-493: the reflected direction, and the reflected ray from the
\* impact point to the point 2.5 times the direction further
Anim5_Reflect ==
    /\ scene = "Anim5_LightInteraction" /\ at = "incident"
    /\ frame' = [frame EXCEPT
                   !.incoming_vec = get_vector(frame.incident_start,
                                               frame.impact_point_on_surface),
                   !.surface_normal_vec = normalize[<<Zero, One, Zero>>],
                   !.reflected_vec_dir =
                       reflected_vec_dir(get_vector(frame.incident_start,
                                                    frame.impact_point_on_surface),
                                         normalize[<<Zero, One, Zero>>]),
                   !.reflected_ray =
                       <<frame.impact_point_on_surface,
                         [k \in 1..3 |->
                            Add[frame.impact_point_on_surface[k],
                                Mul[reflected_vec_dir(
                                        get_vector(frame.incident_start,
                                                   frame.impact_point_on_surface),
                                        normalize[<<Zero, One, Zero>>])[k],
                                    Lit(25, 10)]]]>>]
    /\ played' = played \o
          << Cmd("GrowArrow", "reflected_ray", "ORANGE", frame'.reflected_vec_dir[2]),
             Cmd("Write", "reflected_label", "ORANGE", Zero),
             Cmd("wait", "", "", Half) >>
    /\ at' = "reflected"
    /\ UNCHANGED <<scene, first, tables, callVars>>

\* lines 495-528: the absorption highlight comes and goes, the transmitted
\* ray is drawn, and everything fades out
Anim5_Transmit ==
    /\ scene = "Anim5_LightInteraction" /\ at = "reflected"
    /\ frame' = [frame EXCEPT
                   !.transmitted_vec_dir =
                       IF Gt(py_abs[frame.incoming_vec[2]], Lit(1, 100))
                       THEN normalize[<<Mul[frame.incoming_vec[1], Lit(3, 10)],
                                        Neg[py_abs[frame.incoming_vec[2]]], Zero>>]
                       ELSE normalize[<<Zero, Neg[One], Zero>>]]
    /\ played' = played \o
          << Cmd("set_fill", "absorption_highlight", "RED_D", Lit(6, 10)),
             Cmd("Write", "absorbed_label", "RED_D", Zero),
             Cmd("set_fill", "absorption_highlight", "RED_D", Zero),
             Cmd("FadeOut", "absorbed_label", "", Zero),
             Cmd("wait", "", "", Lit(2, 10)),
             Cmd("set_stroke", "surface_line", "", Lit(4, 10)),
             Cmd("GrowArrow", "transmitted_ray", "LIGHT_GRAY", frame'.transmitted_vec_dir[2]),
             Cmd("Write", "transmitted_label", "LIGHT_GRAY", Zero),
             Cmd("wait", "", "", Two),
             Cmd("FadeOut", "mobjects", "", Zero),
             Cmd("wait", "", "", One) >>
    /\ at' = "end"
    /\ UNCHANGED <<scene, first, tables, callVars>>

SceneNext ==
    \/ Render \/ SceneEnd \/ Call \/ Anim1 \/ Blackbody \/ Bulb \/ Practice
    \/ Anim5_Incident \/ Anim5_Reflect \/ Anim5_Transmit

SceneSpec == SceneInit /\ [][SceneNext]_vars

-----------------------------------------------------------------------------
(* Properties of the scenes.                                                *)

\* the tables and constants as the modules define them
TablesAsDefined ==
    tables = <<B_Wien_Value, EPSILON_Value, TEMP_COLORS_Value, TEMP_COLORS_CUBE_Value,
               BULB_GLOW_COLORS_Value, WIEN_CONSTANT_Value>>

\* C11: no step of any construct changes a module table or constant, and a
\* scene that has run before emits, by the time it ends, exactly the commands
\* of its first run, whichever scenes ran before either run
C11_NoSharedMutableState ==
    /\ [][tables' = tables]_vars
    /\ [](/\ TablesAsDefined
          /\ (at = "end" /\ first[scene] # <<>>) => played = first[scene])

\* C11: the bulb scene, which reads TEMP_COLORS, ends a later run after the
\* nail scene, which filters TEMP_COLORS, has run, with the same commands
C11_Witness ==
    /\ scene = "IncandescentBulbDiffraction" /\ at = "end"
    /\ first[scene] # <<>>
    /\ first["BlackbodyRadiationExplained"] # <<>>
    /\ first["PracticeProblemScene"] = <<>>
    /\ Len(played) > 100
    /\ played = first[scene]

\* the construct has played the animation op on the object on
HasPlayed(op, on) == \E i \in DOMAIN played : played[i].op = op /\ played[i].on = on

\* what C13 says of the colour an updater has set for the tracker's value:
\* the entries floor(v) and floor(v) + 1 of the 0-based table, both in the
\* table, weighted by v - floor(v)
GlowsBetweenNeighbours(fill, v, table) ==
    /\ Floor[v] \in 0..(Len(table) - 2)
    /\ fill = interpolate_color(table[Floor[v] + 1][2], table[Floor[v] + 2][2],
                                Sub[v, FromInt(Floor[v])])

\* C13: in Anim1_BlackCubeAbsorption, in every frame of the glow the tracker
\* is in [0, len(TEMP_COLORS_CUBE) - 1.001] and the square and the outer glow
\* are filled with the colour between the table entries floor(v) and
\* floor(v) + 1 at weight v mod 1; the updaters are only on after the beams
\* were absorbed and faded out; after the animation both fills are the last
\* entry's colour, WHITE
C13_GlowRedToWhite ==
    scene = "Anim1_BlackCubeAbsorption" =>
        /\ (at = "glow" /\ frame.k >= 1) =>
              /\ Le(Zero, frame.temp_tracker)
              /\ Le(frame.temp_tracker,
                    Sub[FromInt(Len(TEMP_COLORS_CUBE)), Lit(1001, 1000)])
              /\ GlowsBetweenNeighbours(frame.square.fill, frame.temp_tracker,
                                        TEMP_COLORS_CUBE)
              /\ GlowsBetweenNeighbours(frame.outer_glow.fill, frame.temp_tracker,
                                        TEMP_COLORS_CUBE)
        /\ at = "glow" =>
              /\ frame.square.updaters /\ frame.outer_glow.updaters
              /\ frame.beams = "faded"
              /\ HasPlayed("Transform", "beams") /\ HasPlayed("FadeOut", "beams")
        /\ at \in {"start", "beams", "absorbed"} /\ frame # NoFrame =>
              ~frame.square.updaters /\ ~frame.outer_glow.updaters
        /\ at = "end" =>
              /\ frame.square.fill = "WHITE" /\ frame.outer_glow.fill = "WHITE"
              /\ TEMP_COLORS_CUBE[Len(TEMP_COLORS_CUBE)][2] = "WHITE"
              /\ ~frame.square.updaters /\ ~frame.outer_glow.updaters

\* C13: the last frame of the glow: the tracker is at 4.999 and the square is
\* filled between YELLOW_D and WHITE; an earlier frame starts from RED_E
C13_Witness ==
    /\ scene = "Anim1_BlackCubeAbsorption" /\ at = "glow"
    /\ frame.k = Frames + 1
    /\ frame.temp_tracker = Sub[FromInt(6), Lit(1001, 1000)]
    /\ Floor[frame.temp_tracker] = 4
    /\ frame.square.fill.from = "YELLOW_D" /\ frame.square.fill.to = "WHITE"
    /\ Gt(frame.square.fill.alpha, Lit(99, 100))

\* C14: in the nail-heating loop the list is the TEMP_COLORS entries up to
\* 3000 K in table order; after i iterations the entries 0..i-1 have each
\* been visited once, in order, none skipped; the display shows the entry
\* visited last (300 K before the first) and is not below what it showed
\* before; the run time of the step was 0.5 + |target - previous| / 500, at
\* least 0.5, never the 0.2 fallback; after the last iteration the display is
\* at 3000 K and the nail is WHITE
C14_NailHeating ==
    (scene = "BlackbodyRadiationExplained" /\ at = "nail") =>
        /\ frame.nail_heating_colors =
              SubSeq(TEMP_COLORS, 1, Len(frame.nail_heating_colors))
        /\ \A j \in DOMAIN TEMP_COLORS :
              TEMP_COLORS[j][1] <= 3000 <=> j <= Len(frame.nail_heating_colors)
        /\ frame.visited = [j \in 1..frame.i |-> j - 1]
        /\ frame.temp_value =
              IF frame.i = 0 THEN FromInt(300)
              ELSE FromInt(frame.nail_heating_colors[frame.i][1])
        /\ Ge(frame.temp_value, frame.previous_temp)
        /\ frame.i >= 1 =>
              /\ frame.nail.fill = frame.nail_heating_colors[frame.i][2]
              /\ frame.anim_time =
                    Add[Half, Div[Sub[frame.temp_value, frame.previous_temp], FromInt(500)]]
              /\ Ge(frame.anim_time, Half)
              /\ HasPlayed("run_time", "")
              /\ \A c \in DOMAIN played :
                    played[c].op = "run_time" => Ge(played[c].value, Half)
        /\ frame.i = Len(frame.nail_heating_colors) =>
              /\ frame.temp_value = FromInt(3000)
              /\ frame.nail.fill = "WHITE"

\* C14: the loop has ended after eight steps; the last one went from 2500 K
\* to 3000 K in 0.5 + 500 / 500 = 1.5 s
C14_Witness ==
    /\ scene = "BlackbodyRadiationExplained" /\ at = "nail"
    /\ frame.i = 8 /\ Len(frame.nail_heating_colors) = 8
    /\ frame.visited = <<0, 1, 2, 3, 4, 5, 6, 7>>
    /\ frame.previous_temp = FromInt(2500)
    /\ frame.temp_value = FromInt(3000)
    /\ frame.anim_time = Lit(15, 10)
    /\ frame.nail.fill = "WHITE"

\* the stages of the spectrum loop, where the loop's locals exist
InSpectrumLoop(stage) == stage \in {"spectrum", "peak", "sample", "sampled", "targets"}

\* the j-th object on screen and the j-th target are of one kind and one
\* temperature
Paired(on_screen, target) ==
    /\ Len(on_screen) = Len(target)
    /\ \A j \in DOMAIN on_screen :
          on_screen[j].kind = target[j].kind /\ on_screen[j].T = target[j].T

\* C15: after iteration k of the spectrum loop (T_plot_idx = k + 1)
\* plots_on_screen holds k + 1 curves; dots_on_screen and
\* temp_labels_on_screen have equal length; the j-th plot, dot and label on
\* screen have the temperature of the j-th target plot, dot and label, and so
\* has every object that a Transform of the iteration turns into a target;
\* no FadeOut is among the animations, and the target lists never shrink
\* from one iteration to the next
C15_OnScreenFollowsTargets ==
    /\ [](  (scene = "BlackbodyRadiationExplained" /\ at = "spectrum" /\ frame.T_plot_idx >= 1) =>
              /\ Len(frame.plots_on_screen) = frame.T_plot_idx
              /\ Len(frame.dots_on_screen) = Len(frame.temp_labels_on_screen)
              /\ Paired(frame.plots_on_screen, frame.all_target_plots)
              /\ Paired(frame.dots_on_screen, frame.all_target_dots)
              /\ Paired(frame.temp_labels_on_screen, frame.all_target_labels)
              /\ \A j \in DOMAIN frame.plots_on_screen :
                    frame.plots_on_screen[j].T = temps_to_plot[j]
              /\ \A j \in DOMAIN frame.dots_on_screen :
                    frame.dots_on_screen[j].T = frame.temp_labels_on_screen[j].T
              /\ \A a \in DOMAIN frame.current_animations :
                    /\ frame.current_animations[a].op # "FadeOut"
                    /\ frame.current_animations[a].op = "Transform" =>
                          /\ frame.current_animations[a].mob.kind = frame.current_animations[a].target.kind
                          /\ frame.current_animations[a].mob.T = frame.current_animations[a].target.T )
    /\ [][ (scene = "BlackbodyRadiationExplained" /\ InSpectrumLoop(at) /\ InSpectrumLoop(at')) =>
              /\ Len(frame'.all_target_plots) >= Len(frame.all_target_plots)
              /\ Len(frame'.all_target_dots) >= Len(frame.all_target_dots)
              /\ Len(frame'.all_target_labels) >= Len(frame.all_target_labels) ]_vars

\* C15: after the last iteration four curves are on screen; the dot of
\* 2500 K, created in the iteration before, has been transformed into the
\* 2500 K target dot of this iteration, and the dot of 4000 K has come in
C15_Witness ==
    /\ scene = "BlackbodyRadiationExplained" /\ at = "spectrum"
    /\ frame.T_plot_idx = 4
    /\ Len(frame.plots_on_screen) = 4
    /\ Len(frame.dots_on_screen) = 2 /\ Len(frame.temp_labels_on_screen) = 2
    /\ frame.dots_on_screen[1].T = 2500 /\ frame.dots_on_screen[1].it = 2
    /\ frame.all_target_dots[1].T = 2500 /\ frame.all_target_dots[1].it = 3
    /\ frame.dots_on_screen[2].T = 4000
    /\ \E a \in DOMAIN frame.current_animations :
          frame.current_animations[a] =
             Anim("Transform", frame.dots_on_screen[1], frame.all_target_dots[1])
    /\ \E a \in DOMAIN frame.current_animations :
          /\ frame.current_animations[a].op = "Transform"
          /\ frame.current_animations[a].mob.kind = "label"
          /\ frame.current_animations[a].target.T = 2500

\* the members of a list of curves, dots or labels that belong to T
Of(mobs, T) == {j \in DOMAIN mobs : mobs[j].T = T}

\* C16: in every iteration of the spectrum loop each accumulated temperature
\* has its curve; it has a dot and a label exactly when its Wien peak
\* wavelength lies in [200, 1500] nm and its peak intensity lies in the y
\* range of the iteration, one dot and one label then, and the dot is at
\* (peak wavelength, pseudo_planck(peak wavelength, T)); 1000 K and 1500 K,
\* whose peaks lie beyond 1500 nm, have a curve and neither dot nor label
C16_DotAtPeakInRange ==
    (scene = "BlackbodyRadiationExplained" /\ at = "spectrum" /\ frame.T_plot_idx >= 1) =>
        /\ Len(frame.plot_data_accumulator) = frame.T_plot_idx
        /\ \A d \in DOMAIN frame.plot_data_accumulator :
              LET T == frame.plot_data_accumulator[d].T
                  peak == lambda_max_nm(FromInt(T), B_Wien, EPSILON)
                  value == pseudo_planck(PyFloat(peak), FromInt(T), B_Wien, EPSILON).data[1]
                  in_range == /\ Le(FromInt(200), peak) /\ Le(peak, FromInt(1500))
                              /\ Le(Zero, value)
                              /\ Le(value, frame.target_y_range.y_max_limit)
              IN /\ T = temps_to_plot[d]
                 /\ Cardinality(Of(frame.all_target_plots, T)) = 1
                 /\ Cardinality(Of(frame.all_target_dots, T)) = IF in_range THEN 1 ELSE 0
                 /\ Cardinality(Of(frame.all_target_labels, T)) = IF in_range THEN 1 ELSE 0
                 /\ \A j \in Of(frame.all_target_dots, T) :
                       /\ frame.all_target_dots[j].x = peak
                       /\ frame.all_target_dots[j].y = value
                 /\ T \in {1000, 1500} => ~in_range /\ Gt(peak, FromInt(1500))

\* C16: after the last iteration the four curves are drawn, 2500 K and
\* 4000 K have a dot and a label, 1000 K and 1500 K have none; the dot of
\* 4000 K is at its peak, 4^4 = 256 high, under the limit of 350
C16_Witness ==
    /\ scene = "BlackbodyRadiationExplained" /\ at = "spectrum"
    /\ frame.T_plot_idx = 4
    /\ Len(frame.all_target_plots) = 4
    /\ Of(frame.all_target_dots, 1000) = {} /\ Of(frame.all_target_dots, 1500) = {}
    /\ Of(frame.all_target_labels, 1000) = {} /\ Of(frame.all_target_labels, 1500) = {}
    /\ Of(frame.all_target_dots, 2500) = {1} /\ Of(frame.all_target_dots, 4000) = {2}
    /\ Of(frame.all_target_labels, 2500) = {1} /\ Of(frame.all_target_labels, 4000) = {2}
    /\ frame.all_target_dots[2].y = FromInt(256)
    /\ frame.target_y_range.y_max_limit = FromInt(350)
    /\ Lt(FromInt(724), frame.all_target_dots[2].x)
    /\ Lt(frame.all_target_dots[2].x, FromInt(725))

\* C17: whenever the spectrum loop has chosen a y axis, y_step is positive,
\* y_max_limit is y_step taken a whole number of times from 1 to 5, and
\* y_max_limit is at least 1.2 times every peak intensity accumulated so
\* far; y_max_limit never decreases in the course of the loop
C17_YAxisCoversPeaks ==
    /\ [](  (/\ scene = "BlackbodyRadiationExplained"
             /\ at = "targets" \/ (at = "spectrum" /\ frame.T_plot_idx >= 1)) =>
              /\ Gt(frame.target_y_range.y_step, Zero)
              /\ Gt(frame.target_y_range.y_max_limit, Zero)
              /\ \E n \in 1..5 :
                    frame.target_y_range.y_max_limit =
                       Mul[FromInt(n), frame.target_y_range.y_step]
              /\ frame.plot_data_accumulator # <<>>
              /\ \A d \in DOMAIN frame.plot_data_accumulator :
                    Ge(frame.target_y_range.y_max_limit,
                       Mul[frame.plot_data_accumulator[d].peak_intensity, Lit(12, 10)]) )
    /\ [][ (scene = "BlackbodyRadiationExplained" /\ InSpectrumLoop(at) /\ InSpectrumLoop(at')) =>
              Ge(frame'.target_y_range.y_max_limit, frame.target_y_range.y_max_limit) ]_vars

\* C17: the axis of the third iteration: the peak of 2500 K is 2.5^4, about
\* 39.06, its limit 46.9 is below 100, the step is 10 and the limit five
\* steps, 50
C17_Witness ==
    /\ scene = "BlackbodyRadiationExplained" /\ at = "targets"
    /\ frame.T_plot_idx = 2
    /\ Len(frame.plot_data_accumulator) = 3
    /\ Gt(frame.plot_data_accumulator[3].peak_intensity, FromInt(39))
    /\ frame.target_y_range.y_step = FromInt(10)
    /\ frame.target_y_range.y_max_limit = FromInt(50)

\* the entries of the table whose threshold is at most T
ThresholdsUpTo(table, T) == {k \in DOMAIN table : table[k][1] <= T}

\* the colour of the entry with the largest threshold that is at most T
ColourOfLargestThresholdUpTo(table, T) ==
    IF ThresholdsUpTo(table, T) = {} THEN "DARK_GRAY"
    ELSE table[CHOOSE k \in ThresholdsUpTo(table, T) :
                  \A l \in ThresholdsUpTo(table, T) : table[l][1] <= table[k][1]][2]

\* C18: the thresholds of TEMP_COLORS are strictly increasing, and for every
\* animated temperature of the bulb the colour chosen for the filament and
\* the rays is that of the entry with the largest threshold at most T
\* (DARK_GRAY if there is none); it is the colour the play is given
C18_ColourOfLargestThreshold ==
    /\ \A k \in DOMAIN TEMP_COLORS : \A l \in DOMAIN TEMP_COLORS :
          k < l => TEMP_COLORS[k][1] < TEMP_COLORS[l][1]
    /\ (scene = "IncandescentBulbDiffraction" /\ at \in {"opacities", "opacity", "flashes"}) =>
          /\ frame.temp_value_bulb = temps_for_bulb_animation[frame.T_idx + 1]
          /\ frame.target_bulb_color_val =
                ColourOfLargestThresholdUpTo(TEMP_COLORS, frame.temp_value_bulb)
          /\ at = "flashes" =>
                /\ \E c \in DOMAIN played :
                      played[c] = Cmd("set_fill", "bulb_filament",
                                      ColourOfLargestThresholdUpTo(TEMP_COLORS, frame.temp_value_bulb),
                                      One)
                /\ \A c \in DOMAIN played :
                      (played[c].op = "set_stroke" /\ played[c].on = "light_path"
                         /\ \A d \in DOMAIN played : d > c => played[d].op # "set_stroke")
                      => played[c].colour =
                            ColourOfLargestThresholdUpTo(TEMP_COLORS, frame.temp_value_bulb)

\* C18: at 3500 K, between the thresholds 3000 (WHITE) and 4000 (BLUE_C), the
\* bulb has been played WHITE, and 3500 is no threshold of the table
C18_Witness ==
    /\ scene = "IncandescentBulbDiffraction" /\ at = "flashes"
    /\ frame.temp_value_bulb = 3500
    /\ \A k \in DOMAIN TEMP_COLORS : TEMP_COLORS[k][1] # 3500
    /\ Cardinality(ThresholdsUpTo(TEMP_COLORS, 3500)) = 8
    /\ frame.target_bulb_color_val = "WHITE"
    /\ played[Len(played) - Len(spectrum_defs) - 1] =
          Cmd("set_stroke", "light_path", "WHITE", frame.ray_opacity_val)

\* the intensity of the spectral line i at T kelvin, lines 466 and 515
LineIntensity(i, T) ==
    pseudo_planck(PyFloat(FromInt(spectrum_defs[i].wl)), FromInt(T), B_Wien, EPSILON).data[1]

\* the animated temperatures that take part in the normalisation, line 465
NormalisingTemps ==
    {temps_for_bulb_animation[t] : t \in DOMAIN temps_for_bulb_animation} \ 0..599

\* C19: once fixed, the normalisation constant of the bulb scene is at
\* least 0.01, no spectral line at an animated temperature of 600 K or more
\* is more intense, and one of them is as intense at the highest animated temperature;
\* every target opacity lies in [0, 1]; for every line and every animated
\* temperature the intensity is less than the constant plus EPSILON (the ratio
\* intensity / (constant + EPSILON) is below 1, written without the
\* quotient, which a short mantissa rounds to 1), and the clip to [0, 1]
\* returns the ratio it is given
C19_NormalisedOpacities ==
    (scene = "IncandescentBulbDiffraction" /\ at \in {"loop", "opacities", "opacity", "flashes"}) =>
        /\ Ge(frame.max_possible_intensity_visible, Lit(1, 100))
        /\ at = "loop" =>
              /\ \A T \in NormalisingTemps : \A i \in DOMAIN spectrum_defs :
                    Le(LineIntensity(i, T), frame.max_possible_intensity_visible)
              /\ \E i \in DOMAIN spectrum_defs :
                    frame.max_possible_intensity_visible =
                       LineIntensity(i, max_of(temps_for_bulb_animation))
              /\ \A t \in DOMAIN temps_for_bulb_animation : \A i \in DOMAIN spectrum_defs :
                    Lt(Sub[LineIntensity(i, temps_for_bulb_animation[t]),
                           frame.max_possible_intensity_visible], EPSILON)
        /\ \A i \in DOMAIN frame.previous_opacities :
              Le(Zero, frame.previous_opacities[i]) /\ Le(frame.previous_opacities[i], One)
        /\ at # "loop" =>
              \A i \in DOMAIN frame.current_target_opacities :
                 /\ Le(Zero, frame.current_target_opacities[i])
                 /\ Le(frame.current_target_opacities[i], One)
                 /\ frame.current_target_opacities[i] =
                       opacity_ratio[LineIntensity(i, frame.temp_value_bulb),
                                     frame.max_possible_intensity_visible, EPSILON]

\* C19: at 5000 K, the highest temperature, the six opacities are
\* computed; the constant is the intensity of the yellow line (580 nm, next
\* to the peak at 579.6 nm) at this temperature, far above the floor, and
\* the violet line, the weakest, is below it
C19_Witness ==
    /\ scene = "IncandescentBulbDiffraction" /\ at = "flashes"
    /\ frame.temp_value_bulb = 5000
    /\ Len(frame.current_target_opacities) = 6
    /\ frame.max_possible_intensity_visible = LineIntensity(4, 5000)
    /\ Gt(frame.max_possible_intensity_visible, FromInt(600))
    /\ Lt(LineIntensity(1, 5000), frame.max_possible_intensity_visible)
    /\ Gt(frame.current_target_opacities[1], Half)
    /\ Lt(frame.current_target_opacities[1], One)

\* C20: in the bulb scene, from one animated temperature to the next the
\* ray opacity does not decrease, and the target opacity of none of the six
\* spectral lines is below the one it had in the step before
C20_BrighterWithTemperature ==
    /\ [][ (scene = "IncandescentBulbDiffraction" /\ at = "loop" /\ at' = "opacities") =>
              Ge(frame'.ray_opacity_val, frame.ray_opacity_val) ]_vars
    /\ [][ (scene = "IncandescentBulbDiffraction" /\ at = "flashes" /\ at' = "loop") =>
              /\ Len(frame'.previous_opacities) = Len(spectrum_defs)
              /\ frame'.previous_opacities = frame.current_target_opacities
              /\ \A i \in DOMAIN frame.previous_opacities :
                    Ge(frame'.previous_opacities[i], frame.previous_opacities[i]) ]_vars
    /\ [](  (scene = "IncandescentBulbDiffraction" /\ at = "flashes") =>
              \A i \in DOMAIN spectrum_defs :
                 Ge(frame.current_target_opacities[i], frame.previous_opacities[i]) )

\* C20: the last step, from 4000 K to 5000 K: the rays are at their limit
\* of 0.8, and each of the six lines is more opaque than it was at 4000 K
C20_Witness ==
    /\ scene = "IncandescentBulbDiffraction" /\ at = "flashes"
    /\ frame.T_idx = 9 /\ frame.temp_value_bulb = 5000
    /\ frame.ray_opacity_val = Lit(8, 10)
    /\ \A i \in DOMAIN spectrum_defs :
          /\ Gt(frame.previous_opacities[i], Zero)
          /\ Gt(frame.current_target_opacities[i], frame.previous_opacities[i])

\* the upward normal of the surface
UpNormal == <<Zero, One, Zero>>

\* C21: in Anim5_LightInteraction, once the reflected ray is drawn: the
\* incoming vector runs from the start of the incident ray down to the impact
\* point; the normal used is the upward one; the reflected direction is the
\* incoming vector with the same x and the negated y component, normalised
\* (of length 1 within the rounding of the arithmetic); along the surface it
\* has the component of the normalised incoming vector and along the normal
\* the opposite one, so the two angles with the normal are equal; its y
\* component is positive, and the reflected ray starts at the impact point
\* and ends above the surface
C21_LawOfReflection ==
    (scene = "Anim5_LightInteraction" /\ at \in {"reflected", "end"}) =>
        /\ frame.incoming_vec =
              [k \in 1..3 |-> Sub[frame.impact_point_on_surface[k], frame.incident_start[k]]]
        /\ Lt(frame.incoming_vec[2], Zero)
        /\ frame.surface_normal_vec = UpNormal
        /\ frame.reflected_vec_dir =
              normalize[<<frame.incoming_vec[1], Neg[frame.incoming_vec[2]],
                          frame.incoming_vec[3]>>]
        /\ Lt(py_abs[Sub[np_dot[frame.reflected_vec_dir, frame.reflected_vec_dir], One]],
              Lit(1, 1000))
        /\ frame.reflected_vec_dir[1] = normalize[frame.incoming_vec][1]
        /\ np_dot[frame.reflected_vec_dir, UpNormal] =
              Neg[np_dot[normalize[frame.incoming_vec], UpNormal]]
        /\ Gt(frame.reflected_vec_dir[2], Zero)
        /\ frame.reflected_ray[1] = frame.impact_point_on_surface
        /\ Gt(frame.reflected_ray[2][2], frame.impact_point_on_surface[2])
        /\ \E c \in DOMAIN played :
              /\ played[c].op = "GrowArrow" /\ played[c].on = "reflected_ray"
              /\ played[c].value = frame.reflected_vec_dir[2]

\* C21: the reflected ray is drawn: the incoming vector is (2.2, -3.8, 0),
\* the reflected direction (0.501, 0.865, 0), and the ray ends near
\* (0.45, 1.16), above the surface at y = -1
C21_Witness ==
    /\ scene = "Anim5_LightInteraction" /\ at = "reflected"
    /\ Gt(frame.incoming_vec[1], Lit(219, 100)) /\ Lt(frame.incoming_vec[1], Lit(221, 100))
    /\ Lt(frame.incoming_vec[2], Neg[Lit(379, 100)])
    /\ Gt(frame.incoming_vec[2], Neg[Lit(381, 100)])
    /\ Gt(frame.reflected_vec_dir[1], Lit(500, 1000))
    /\ Lt(frame.reflected_vec_dir[1], Lit(502, 1000))
    /\ Gt(frame.reflected_vec_dir[2], Lit(864, 1000))
    /\ Lt(frame.reflected_vec_dir[2], Lit(866, 1000))
    /\ frame.reflected_vec_dir[3] = Zero
    /\ Gt(frame.reflected_ray[2][1], Lit(44, 100)) /\ Lt(frame.reflected_ray[2][1], Lit(46, 100))
    /\ Gt(frame.reflected_ray[2][2], Lit(115, 100)) /\ Lt(frame.reflected_ray[2][2], Lit(118, 100))

====
